---- MODULE Spec2Model ----
(***************************************************************************)
(* Model of ed::RenderEngine (src/Objects/RenderEngine.cpp): the cache   *)
(* synchroniser m_cache, the frame executor Render, picking, FlushCache,  *)
(* the framebuffer manager m_updatePassFBO and the shader preprocessor     *)
(* (m_applyMacros, m_includeCheck).                                        *)
(*                                                                         *)
(* Vectors are sequences; C++ indices are 0-based and are kept 0-based in  *)
(* the operators' parameters (element i of a vector v is v[i+1]).          *)
(***************************************************************************)
EXTENDS Integers, Sequences, FiniteSets, TLC

(***************************************************************************)
(* Bounds of the model.                                                    *)
(***************************************************************************)
\* how often one pass is compiled, and how often its framebuffers are built
MaxGen == 2
\* the cache timer is observed in half seconds, up to this many
MaxTimer == 2
\* the frame index is observed modulo FrameWrap
FrameWrap == 3
\* longest pipeline list
MaxLen == 4
\* lines of a shader text, and lines of a project file
MaxLines == 3
\* macros of a pass
MaxMacros == 2
\* include paths of a project, "." included
MaxPaths == 2
\* nested activations of m_includeCheck
MaxDepth == 6

(***************************************************************************)
(* Program constants.                                                      *)
(***************************************************************************)
\* m_cacheTimer.GetElapsedTime() > 0.5f, in half seconds
CacheInterval == 1
\* #define DEBUG_ID_START 1
DEBUG_ID_START == 1
\* capacity of ShaderPass::RenderTextures
MAX_RENDER_TEXTURES == 2

(***************************************************************************)
(* Vector helpers (std::vector insert / erase at a 0-based position).      *)
(***************************************************************************)
InsertAt(s, i, x) == SubSeq(s, 1, i) \o <<x>> \o SubSeq(s, i + 1, Len(s))

EraseAt(s, i) == SubSeq(s, 1, i) \o SubSeq(s, i + 2, Len(s))

SetAt(s, i, x) == [s EXCEPT ![i + 1] = x]

Contains(s, x) == \E k \in 1..Len(s) : s[k] = x

Range(s) == {s[k] : k \in 1..Len(s)}

NoDup(s) == \A a, b \in 1..Len(s) : a # b => s[a] # s[b]

Min(a, b) == IF a < b THEN a ELSE b

(***************************************************************************)
(* Variants of single steps of the code, used to test that the properties  *)
(* below depend on those steps.                                            *)
(***************************************************************************)
\* the debounce with >= in place of >
DebouncedAtInterval(c, items) ==
    Len(c.m_items) = Len(items) /\ ~(c.m_cacheTimer >= CacheInterval)

\* the frame index advanced without looking at m_paused
AdvanceFrameAlways(c) == [c EXCEPT !.frameIndex = (@ + 1) % FrameWrap]

\* the program-0 check dropped
ProgramAlwaysThere(c, i) == FALSE

\* the include stack never consulted
NeverInStack(includeStack, ipath) == FALSE

\* the end of the frame without the resolution of the pick
PickLeftPending(c) == c

\* compute passes dispatched whether paused or not
ComputeRunsPaused(c, isDebug) == ~isDebug

\* the uniform information left with the custom program
NotRestored(c, pass) == c

\* a recompilation that leaves the program of the entry as it is
ProgramLeftAlone(c, it, i, failed) == c

\* the snapshot of the render targets never found different
SnapshotNeverDiffers(c, pass) == FALSE

\* the window colour target taken as never cleared before
WindowNeverCleared(c) == FALSE

\* multisampling left on in a debug frame
MSAAInDebug(setting, isDebug) == setting

\* the framebuffers and the snapshot left as they are
FBOLeftAlone(c, pass) == c

\* the item appended whatever the list holds and whatever the mode
AlwaysAppended(pick, item, multiPick) == Append(pick, item)


\* AddPickedItem without the search for the item and without the null test
AppendedUnseen(pick, item, multiPick) == IF multiPick THEN Append(pick, item) ELSE <<item>>


\* a removal phase that erases the first shadow entry whatever the pipeline holds
FrontErased(c, items, i) ==
    IF Len(c.m_items) > 0
    THEN [c EXCEPT !.m_items = EraseAt(@, 0), !.m_shaders = EraseAt(@, 0),
                   !.ops.erases = @ + 1]
    ELSE c

(***************************************************************************)
(* GL object names.  The n-th compilation of pass p (and the n-th build of *)
(* its framebuffers) hands out names that nothing else hands out; 0 is the *)
(* "no object" name.                                                       *)
(***************************************************************************)
GLName(p, n, kind) == ((p * (MaxGen + 2)) + n) * 8 + kind

VSName(p, n) == GLName(p, n, 1)

PSName(p, n) == GLName(p, n, 2)

GSName(p, n) == GLName(p, n, 3)

ProgramName(p, n) == GLName(p, n, 4)

DebugProgramName(p, n) == GLName(p, n, 5)

FBOName(p, n) == GLName(p, n, 6)

FBOMSName(p, n) == GLName(p, n, 7)

CSName(p, n) == GLName(p, n, 0)

(***************************************************************************)
(* The pipeline items.  An identity is the item's Data pointer.            *)
(***************************************************************************)
PassIds == {1, 2, 3, 4, 5}

ItemTypes == {"ShaderPass", "ComputePass", "AudioPass", "PluginItem"}

ChildTypes == {"Geometry", "Model", "RenderState", "PluginItem"}

ChildIds == {11, 12, 13, 14, 15, 16}

\* the child items (draw calls and state blocks) a project declares
children ==
    [c \in ChildIds |->
        CASE c = 11 -> [Type |-> "Geometry", Geo |-> "Cube", Pickable |-> TRUE]
          [] c = 12 -> [Type |-> "Model", Geo |-> "", Pickable |-> TRUE]
          [] c = 13 -> [Type |-> "RenderState", Geo |-> "", Pickable |-> FALSE]
          [] c = 14 -> [Type |-> "Geometry", Geo |-> "Rectangle", Pickable |-> FALSE]
          [] c = 15 -> [Type |-> "PluginItem", Geo |-> "", Pickable |-> TRUE]
          [] c = 16 -> [Type |-> "Geometry", Geo |-> "Sphere", Pickable |-> TRUE]]

\* pipe::ShaderPass
ShaderPass(items, rts, gsUsed, hasPath, compiles, active) ==
    [Type |-> "ShaderPass", Active |-> active, Items |-> items,
     RenderTextures |-> [k \in 1..MAX_RENDER_TEXTURES |-> IF k <= Len(rts) THEN rts[k] ELSE 0],
     RTCount |-> Len(rts), GSUsed |-> gsUsed, HasPath |-> hasPath, Compiles |-> compiles]

\* pipe::ComputePass, pipe::AudioPass, pipe::PluginItemData
OtherPass(type, hasPath, compiles) ==
    [Type |-> type, Active |-> TRUE, Items |-> <<>>,
     RenderTextures |-> [k \in 1..MAX_RENDER_TEXTURES |-> 0],
     RTCount |-> 0, GSUsed |-> FALSE, HasPath |-> hasPath, Compiles |-> compiles]

VARIABLES
    passes,           \* the payload of every pipeline item (ShaderPass, ComputePass, ...)
    pipeline,         \* m_pipeline->GetList()
    m_items, m_shaders, m_debugShaders, m_shaderSources,
    m_fbos, m_fboCount, m_fboMS, m_fbosNeedUpdate,
    passFBO,          \* ShaderPass::FBO of every pass
    fboColors,        \* the colour attachments of every pass's FBO
    msaa,             \* Settings::Instance().Preview.MSAA != 1
    passDepth,        \* ShaderPass::DepthTexture of every pass
    live,             \* the GL names that exist on the GPU
    compileGen,       \* how often each pass was compiled so far
    fboGen,           \* how often each pass's framebuffers were built so far
    m_cacheTimer,     \* elapsed time of m_cacheTimer
    m_paused,
    frameIndex,       \* SystemVariableManager frame index
    m_pick, m_pickAwaiting, m_pickDist, m_wasMultiPick,
    m_pickHandle,     \* TRUE when the pending callback is not null
    pickRay,          \* m_pickOrigin / m_pickDir: what the ray hits
    lastOp,           \* the operation that ran last
    lastCache,        \* whether the m_cache of the last Render got past the debounce
    crashed,          \* an out-of-range vector access ended the process
    uniformInfo,      \* the program each pass's Variables hold the uniform locations of
    m_msgs,           \* "Failed to compile" errors on the message stack, by group (pass)
    m_pixels,         \* the pixel list of the debugger (m_debug)
    src, macros, macroOut,      \* m_applyMacros: the text, pass->Macros, the text afterwards
    files,            \* the content of every project file, as lines
    paths,            \* Settings::Project.IncludePaths followed by "."
    fileDirs,         \* the directories in which a file of each name exists
    incFrames,        \* the activations of m_includeCheck, outermost first
    incMsgs,          \* "Recursive #include detected" messages on the message stack
    incDone,          \* the outermost m_includeCheck has returned
    lineBias

cacheVars == <<m_items, m_shaders, m_debugShaders, m_shaderSources>>

fboVars == <<m_fbos, m_fboCount, m_fboMS, m_fbosNeedUpdate, passFBO, passDepth, fboColors>>

pickVars == <<m_pick, m_pickAwaiting, m_pickDist, m_wasMultiPick, m_pickHandle, pickRay>>

macroVars == <<src, macros, macroOut>>

incVars == <<files, paths, fileDirs, incFrames, incMsgs, incDone, lineBias>>

diagVars == <<uniformInfo, m_msgs>>

vars == <<passes, pipeline, cacheVars, fboVars, msaa, live, compileGen, fboGen,
          m_cacheTimer, m_paused, frameIndex, pickVars, lastOp, lastCache, crashed,
          macroVars, incVars, diagVars, m_pixels>>

(***************************************************************************)
(* m_cache.  The engine state the reconciliation works on is carried in a  *)
(* record c; ops counts what the call did.                                 *)
(***************************************************************************)
EmptyPack == [VS |-> 0, PS |-> 0, GS |-> 0]

NoOps == [ran |-> FALSE, inserts |-> 0, erases |-> 0, moves |-> 0,
          compiles |-> 0, links |-> 0, deletes |-> 0, oob |-> FALSE]

\* an access outside a vector: the process dies at that point
OutOfRange(c) == [c EXCEPT !.crashed = TRUE, !.ops.oob = TRUE]

\* glDeleteProgram / glDeleteShader / glDeleteFramebuffers: name 0 is ignored
glDelete(c, h) ==
    IF h = 0 THEN c
    ELSE [c EXCEPT !.live = @ \ {h}, !.ops.deletes = @ + 1, !.freed = Append(@, h)]

\* std::vector<GLuint>::resize(MAX_RENDER_TEXTURES), new entries are 0
ResizeSnapshot(v) ==
    [k \in 1..MAX_RENDER_TEXTURES |-> IF k <= Len(v) THEN v[k] ELSE 0]

\* lines 1719-1828: compile the stages of a shader pass and link its programs
CompileShaderPass(c, it, i) ==
    LET data == passes[it]
        n    == c.compileGen[it] + 1
        vs   == VSName(it, n)
        ps   == PSName(it, n)
        gs   == IF data.GSUsed THEN GSName(it, n) ELSE 0
        c1   == glDelete(glDelete(glDelete(c, c.m_shaderSources[i + 1].VS),
                                  c.m_shaderSources[i + 1].PS),
                         c.m_shaderSources[i + 1].GS)
        c2   == [c1 EXCEPT !.m_fbos[it] = ResizeSnapshot(@),
                           !.compileGen[it] = n,
                           !.live = @ \cup ({vs, ps, gs} \ {0}),
                           !.ops.compiles = @ + 1]
        c3   == glDelete(glDelete(c2, c2.m_shaders[i + 1]), c2.m_debugShaders[i + 1])
        c4   == IF ~data.Compiles
                THEN [c3 EXCEPT !.m_shaders = SetAt(@, i, 0),
                                !.m_msgs[it] = @ + 1]
                ELSE [c3 EXCEPT !.m_shaders = SetAt(@, i, ProgramName(it, n)),
                                !.m_debugShaders = SetAt(@, i, DebugProgramName(it, n)),
                                !.live = @ \cup {ProgramName(it, n), DebugProgramName(it, n)},
                                !.m_msgs[it] = 0,
                                !.uniformInfo[it] = ProgramName(it, n),
                                !.ops.links = @ + 2]
    IN  [c4 EXCEPT !.m_shaderSources = SetAt(@, i, [VS |-> vs, PS |-> ps, GS |-> gs])]

\* lines 1706-1829: a shader pass that is not in the cache yet
CacheShaderPass(c, it, i) ==
    LET c1 == [c EXCEPT !.m_items = InsertAt(@, i, it),
                        !.m_shaders = InsertAt(@, i, 0),
                        !.ops.inserts = @ + 1]
    IN  IF i > Len(c.m_debugShaders)
        THEN OutOfRange(c1)
        ELSE LET c2 == [c1 EXCEPT !.m_debugShaders = InsertAt(@, i, 0),
                                  !.m_shaderSources = InsertAt(@, i, EmptyPack)]
             IN  IF ~passes[it].HasPath THEN c2 ELSE CompileShaderPass(c2, it, i)

\* lines 1846-1892: compile and link a compute pass
CompileComputePass(c, it, i) ==
    LET n  == c.compileGen[it] + 1
        c1 == [c EXCEPT !.compileGen[it] = n, !.live = @ \cup {CSName(it, n)},
                        !.ops.compiles = @ + 1]
        c2 == glDelete(c1, c1.m_shaders[i + 1])
        c3 == IF ~passes[it].Compiles
              THEN [c2 EXCEPT !.m_shaders = SetAt(@, i, 0),
                              !.m_msgs[it] = @ + 1]
              ELSE [c2 EXCEPT !.m_shaders = SetAt(@, i, ProgramName(it, n)),
                              !.live = @ \cup {ProgramName(it, n)},
                              !.m_msgs[it] = 0,
                              !.uniformInfo[it] = ProgramName(it, n),
                              !.ops.links = @ + 1]
    IN  [c3 EXCEPT !.m_shaderSources = SetAt(@, i, EmptyPack)]

\* lines 1830-1922: a compute pass, audio pass or plugin item that is not in
\* the cache yet: no entry is inserted into m_debugShaders
CacheOtherItem(c, it, i) ==
    LET c1 == [c EXCEPT !.m_items = InsertAt(@, i, it),
                        !.m_shaders = InsertAt(@, i, 0),
                        !.m_shaderSources = InsertAt(@, i, EmptyPack),
                        !.ops.inserts = @ + 1]
    IN  IF passes[it].Type = "ComputePass" /\ passes[it].HasPath
        THEN CompileComputePass(c1, it, i)
        ELSE c1

\* lines 1695-1924: "check if some item was added"
RECURSIVE AddPhase(_, _, _)
AddPhase(c, items, i) ==
    IF c.crashed \/ i >= Len(items) THEN c
    ELSE LET it == items[i + 1] IN
         IF Contains(c.m_items, it) THEN AddPhase(c, items, i + 1)
         ELSE IF passes[it].Type = "ShaderPass"
              THEN AddPhase(CacheShaderPass(c, it, i), items, i + 1)
              ELSE AddPhase(CacheOtherItem(c, it, i), items, i + 1)

\* lines 1935-1948: erase shadow entry i
RemoveEntry(c, i) ==
    LET c1 == glDelete(c, c.m_shaders[i + 1]) IN
    IF i >= Len(c.m_debugShaders)
    THEN OutOfRange(c1)
    ELSE LET c2 == glDelete(c1, c.m_debugShaders[i + 1])
             it == c.m_items[i + 1]
         IN  [c2 EXCEPT !.m_fbos[it] = IF passes[it].Type = "ShaderPass" THEN <<>> ELSE @,
                        !.m_items = EraseAt(@, i),
                        !.m_shaders = EraseAt(@, i),
                        !.m_debugShaders = EraseAt(@, i),
                        !.m_shaderSources = EraseAt(@, i),
                        !.ops.erases = @ + 1]

\* lines 1927-1949: "check if some item was removed"; i++ runs after an erase too
RECURSIVE RemovePhase(_, _, _)
RemovePhase(c, items, i) ==
    IF c.crashed \/ i >= Len(c.m_items) THEN c
    ELSE IF Contains(items, c.m_items[i + 1]) THEN RemovePhase(c, items, i + 1)
         ELSE RemovePhase(RemoveEntry(c, i), items, i + 1)

\* lines 1961-1976: move shadow entry i to the position of items[j]
MoveEntry(c, items, i, j) ==
    LET dest == IF j > i THEN j - 1 ELSE j
        c1   == [c EXCEPT !.m_items = InsertAt(EraseAt(@, i), dest, items[j + 1]),
                          !.ops.moves = @ + 1]
    IN  IF i >= Len(c.m_debugShaders) \/ dest > Len(c.m_debugShaders) - 1
        THEN OutOfRange(c1)
        ELSE [c1 EXCEPT !.m_shaders = InsertAt(EraseAt(@, i), dest, c.m_shaders[i + 1]),
                        !.m_debugShaders =
                            InsertAt(EraseAt(@, i), dest, c.m_debugShaders[i + 1]),
                        !.m_shaderSources =
                            InsertAt(EraseAt(@, i), dest, c.m_shaderSources[i + 1])]

\* lines 1956-1978: the inner loop over j; m_items[i] is read again in every round
RECURSIVE MoveScan(_, _, _, _)
MoveScan(c, items, i, j) ==
    IF c.crashed \/ j >= Len(items) THEN c
    ELSE IF items[j + 1] = c.m_items[i + 1]
         THEN MoveScan(MoveEntry(c, items, i, j), items, i, j + 1)
         ELSE MoveScan(c, items, i, j + 1)

\* lines 1952-1980: "check if the order of the items changed".  items[i] is read
\* without a bound check: past the end of the pipeline list the read yields
\* whatever garbage[i] is, or ends the process (abort).
RECURSIVE ReorderPhase(_, _, _, _, _)
ReorderPhase(c, items, i, abort, garbage) ==
    IF c.crashed \/ i >= Len(c.m_items) THEN c
    ELSE IF i >= Len(items) /\ abort THEN OutOfRange(c)
    ELSE LET c0  == IF i >= Len(items) THEN [c EXCEPT !.ops.oob = TRUE] ELSE c
             cur == IF i >= Len(items) THEN garbage[i] ELSE items[i + 1]
         IN  IF cur # c0.m_items[i + 1]
             THEN ReorderPhase(MoveScan(c0, items, i, 0), items, i + 1, abort, garbage)
             ELSE ReorderPhase(c0, items, i + 1, abort, garbage)

\* lines 1686-1690: the debounce
Debounced(c, items) ==
    Len(c.m_items) = Len(items) /\ ~(c.m_cacheTimer > CacheInterval)

\* lines 1680-1981
m_cache(c, items, abort, garbage) ==
    IF Debounced(c, items) THEN c
    ELSE LET c0 == [c EXCEPT !.ops.ran = TRUE,
                             !.m_cacheTimer = IF Len(c.m_items) = Len(items) THEN 0 ELSE @]
         IN  ReorderPhase(RemovePhase(AddPhase(c0, items, 0), items, 0),
                          items, 0, abort, garbage)

(***************************************************************************)
(* Render targets.  m_rtColor is the window colour texture; every other   *)
(* non-zero entry of RenderTextures names a render-texture object, whose   *)
(* depth/stencil buffer is DepthOf of it.                                  *)
(***************************************************************************)
m_rtColor == 1

RTObjects == {2, 3}

\* m_rtDepth for the window, RenderTextureObject::DepthStencilBuffer otherwise
DepthOf(rt) == 10 + rt

m_rtDepth == DepthOf(m_rtColor)

(***************************************************************************)
(* m_updatePassFBO, lines 2100-2164.                                       *)
(***************************************************************************)
SnapshotDiffers(c, pass) ==
    \E k \in 1..passes[pass].RTCount : passes[pass].RenderTextures[k] # c.m_fbos[pass][k]

m_updatePassFBO(c, pass) ==
    LET data == passes[pass] IN
    IF Len(c.m_fbos[pass]) < data.RTCount
    THEN \* m_fbos[pass][i] on a vector that was never resized
         [c EXCEPT !.crashed = TRUE, !.oob = TRUE]
    ELSE
    LET changed == SnapshotDiffers(c, pass) \/ c.m_fboCount[pass] # data.RTCount
        c1 == [c EXCEPT !.m_fbos[pass] =
                            [k \in 1..Len(@) |->
                                IF k <= data.RTCount THEN data.RenderTextures[k] ELSE @[k]],
                        !.m_fboCount[pass] = data.RTCount]
    IN  IF ~changed /\ ~c.m_fbosNeedUpdate THEN c1
        ELSE LET n      == c1.fboGen[pass] + 1
                 lastID == data.RenderTextures[data.RTCount]
                 old    == IF c1.passFBO[pass] # 0
                           THEN {c1.passFBO[pass], c1.m_fboMS[pass]} ELSE {}
             IN  [c1 EXCEPT !.passDepth[pass] = DepthOf(lastID),
                            !.live = (@ \ old) \cup {FBOName(pass, n), FBOMSName(pass, n)},
                            !.passFBO[pass] = FBOName(pass, n),
                            !.m_fboMS[pass] = FBOMSName(pass, n),
                            !.fboColors[pass] =
                                [k \in 1..data.RTCount |-> data.RenderTextures[k]],
                            !.fboGen[pass] = n,
                            !.events = Append(@, [k |-> "fbo", pass |-> pass]),
                            !.m_fbosNeedUpdate = FALSE]

(***************************************************************************)
(* Picking: Pick(item, add) / AddPickedItem, m_pickItem.                   *)
(***************************************************************************)
MaxDist == 3

\* number of triangles of a model
MaxTris == 2

\* std::numeric_limits<float>::infinity()
Infinity == MaxDist + 1

Dists == 1..MaxDist \cup {Infinity}

NoItem == 0

\* lines 1600-1625 (and, with the same body, Pick(item, add), lines 1450-1474)
AddPickedItem(pick, item, multiPick) ==
    IF Contains(pick, item)
    THEN IF ~multiPick THEN <<item>> ELSE pick
    ELSE IF item = NoItem THEN <<>>
         ELSE IF multiPick THEN Append(pick, item)
         ELSE <<item>>

\* lines 1562-1581: the triangles of a model, in mesh order; myDist is the
\* running minimum and the scan stops at the first triangle closer than m_pickDist
RECURSIVE TriangleScan(_, _, _, _)
TriangleScan(tris, k, myDist, pickDist) ==
    IF k > Len(tris) THEN myDist
    ELSE IF tris[k] < Infinity /\ tris[k] < myDist
         THEN IF tris[k] < pickDist THEN tris[k]
              ELSE TriangleScan(tris, k + 1, tris[k], pickDist)
         ELSE TriangleScan(tris, k + 1, myDist, pickDist)

\* lines 1507-1592: the distance at which the pick ray hits the item
MyDist(c, item) ==
    LET hit == c.pickRay[item] IN
    IF children[item].Type = "Model"
    THEN IF hit.dist < Infinity
         THEN IF hit.dist < c.m_pickDist
              THEN TriangleScan(hit.tris, 1, Infinity, c.m_pickDist)
              ELSE hit.dist
         ELSE Infinity
    ELSE hit.dist

\* lines 1475-1599
m_pickItem(c, item, multiPick) ==
    IF children[item].Type = "Geometry"
       /\ children[item].Geo \in {"Rectangle", "ScreenQuadNDC"}
    THEN c
    ELSE LET myDist == MyDist(c, item) IN
         IF myDist < c.m_pickDist
         THEN [c EXCEPT !.m_pickDist = myDist,
                        !.m_pick = AddPickedItem(@, item, multiPick),
                        !.tested = @ \cup {item}]
         ELSE [c EXCEPT !.tested = @ \cup {item}]

\* lines 181, 423, 1635: m_shaders[i] == 0, the pass has no program
NoProgram(c, i) == c.m_shaders[i + 1] = 0

(***************************************************************************)
(* Render, lines 112-535.  What a frame does is recorded as events         *)
(* [k, pass, item, id].                                                    *)
(***************************************************************************)
Ev(k, pass, item, id) == [k |-> k, pass |-> pass, item |-> item, id |-> id]

\* a name read from outside a vector: no GL object has it
WildName == 0 - 1

\* RenderTextureObject::Clear of the render-texture objects
RTClear(rt) == rt = 2

\* lines 189-196: clear the depth texture
ClearDepth(c, pass) ==
    LET depth == c.passDepth[pass] IN
    IF depth # c.previousDepth
    THEN LET c1 == IF depth # m_rtDepth \/ ~c.clearedWindow
                   THEN [c EXCEPT !.events = Append(@, Ev("clearDepth", pass, depth, 0))]
                   ELSE c
         IN  [c1 EXCEPT !.previousDepth = depth]
    ELSE c

\* lines 213-218: the render texture is in previousTexture
usedPreviously(c, rt) == Contains(c.previousTexture, rt)

\* line 225: the window colour target was cleared earlier in the frame
WindowCleared(c) == c.clearedWindow

\* lines 199-230: the loop over RenderTextures, stopped by the first 0
RECURSIVE BindRTs(_, _, _, _)
BindRTs(c, pass, k, isDebug) ==
    IF k > MAX_RENDER_TEXTURES \/ passes[pass].RenderTextures[k] = 0 THEN c
    ELSE LET rt == passes[pass].RenderTextures[k] IN
         IF rt # m_rtColor
         THEN IF ~usedPreviously(c, rt) /\ RTClear(rt)
              THEN BindRTs([c EXCEPT !.events =
                                Append(@, Ev("clearColor", pass, rt, IF isDebug THEN 0 ELSE 1))],
                           pass, k + 1, isDebug)
              ELSE BindRTs(c, pass, k + 1, isDebug)
         ELSE IF ~WindowCleared(c)
              THEN BindRTs([c EXCEPT !.events =
                                Append(@, Ev("clearColor", pass, rt, IF isDebug THEN 0 ELSE 1)),
                                     !.clearedWindow = TRUE],
                           pass, k + 1, isDebug)
              ELSE BindRTs(c, pass, k + 1, isDebug)

\* lines 231-232
RememberRTs(c, pass) ==
    [c EXCEPT !.previousTexture =
        [k \in 1..MAX_RENDER_TEXTURES |->
            IF k <= passes[pass].RTCount THEN passes[pass].RenderTextures[k] ELSE @[k]]]

\* lines 297-298, 342-343: a pending pick tests the item before it is drawn
PickTested(c, item) ==
    IF c.m_pickAwaiting THEN m_pickItem(c, item, c.m_wasMultiPick) ELSE c

\* lines 285-340: the draw call of a geometry item or model; lines 287-288, 333-334:
\* in debug mode the item gets the next debug ID
DrawCall(c, pass, item, isDebug) ==
    [c EXCEPT !.events = Append(@, Ev("draw", pass, item, IF isDebug THEN c.debugID ELSE 0)),
              !.debugID = IF isDebug THEN @ + 1 ELSE @]

\* lines 392-399: a plugin item among the children
PluginDraw(c, pass, item) ==
    [c EXCEPT !.events = Append(@, Ev("pluginDraw", pass, item, 0))]

\* lines 275-400: the child items of a pass, in their declared order
RECURSIVE DrawItems(_, _, _, _)
DrawItems(c, pass, j, isDebug) ==
    IF j >= Len(passes[pass].Items) THEN c
    ELSE
    LET item == passes[pass].Items[j + 1]
        type == children[item].Type
    IN  IF type \in {"Geometry", "Model"}
        THEN DrawItems(DrawCall(PickTested(c, item), pass, item, isDebug),
                       pass, j + 1, isDebug)
        ELSE IF type = "RenderState"
        THEN DrawItems([c EXCEPT !.events = Append(@, Ev("state", pass, item, 0))],
                       pass, j + 1, isDebug)
        ELSE DrawItems(PluginDraw(IF children[item].Pickable THEN PickTested(c, item) ELSE c,
                                  pass, item),
                       pass, j + 1, isDebug)

\* lines 185-187: bind the pass's framebuffer, the multisampled one under MSAA
BindFBO(c, pass, isMSAA) ==
    [c EXCEPT !.events = Append(@, Ev("bindFBO", pass,
                                      IF isMSAA THEN c.m_fboMS[pass] ELSE c.passFBO[pass], 0))]

\* lines 238-242: glUseProgram(isDebug ? m_debugShaders[i] : m_shaders[i]); the
\* read of m_debugShaders[i] is unchecked
UseProgram(c, pass, i, isDebug) ==
    LET program == IF ~isDebug THEN c.m_shaders[i + 1]
                   ELSE IF i >= Len(c.m_debugShaders) THEN WildName
                   ELSE c.m_debugShaders[i + 1]
    IN  [c EXCEPT !.events = Append(@, Ev("useProgram", pass, program, 0)),
                  !.uniformInfo[pass] = IF isDebug THEN program ELSE @,
                  !.oob = @ \/ (isDebug /\ i >= Len(c.m_debugShaders))]

\* lines 402-403: after a debug draw the uniform locations of the normal program
\* are looked up again
RestoreUniformInfo(c, pass, i, isDebug) ==
    IF isDebug THEN [c EXCEPT !.uniformInfo[pass] = c.m_shaders[i + 1]] ELSE c

\* lines 405-416: resolve the multisampled framebuffer
ResolveMSAA(c, pass, isMSAA) ==
    IF isMSAA THEN [c EXCEPT !.events = Append(@, Ev("resolve", pass, c.m_fboMS[pass], 0))]
    ELSE c

\* lines 181-409: the pass once its framebuffers are up to date
DrawPass(c, i, pass, isDebug, isMSAA, abortRead) ==
    IF c.crashed \/ NoProgram(c, i) THEN c
    ELSE IF isDebug /\ i >= Len(c.m_debugShaders) /\ abortRead
    THEN [c EXCEPT !.crashed = TRUE, !.oob = TRUE]
    ELSE ResolveMSAA(
             RestoreUniformInfo(
                 DrawItems(
                     UseProgram(
                         RememberRTs(
                             BindRTs(ClearDepth(BindFBO(c, pass, isMSAA), pass), pass, 1, isDebug),
                             pass),
                         pass, i, isDebug),
                     pass, 0, isDebug),
                 pass, i, isDebug),
             pass, isMSAA)

\* line 114: multisampling is on when the setting asks for it and the frame is
\* not a debug frame
isMSAA(setting, isDebug) == setting /\ ~isDebug

\* lines 169-416: one shader pass
RenderShaderPass(c, i, isDebug, abortRead) ==
    LET pass == c.m_items[i + 1]
        data == passes[pass]
    IN  IF ~data.Active \/ Len(data.Items) <= 0 \/ data.RTCount = 0 \/ (isDebug /\ data.GSUsed)
        THEN c
        ELSE DrawPass(m_updatePassFBO(c, pass), i, pass, isDebug, isMSAA(msaa, isDebug),
                      abortRead)

\* line 417: a compute pass is dispatched when !isDebug && !m_paused (and compute
\* shaders are supported)
ComputeRuns(c, isDebug) == ~isDebug /\ ~c.m_paused

\* lines 166-512: entry i of m_items
RenderItem(c, i, isDebug, abortRead) ==
    LET it   == c.m_items[i + 1]
        type == passes[it].Type
    IN  IF type = "ShaderPass" THEN RenderShaderPass(c, i, isDebug, abortRead)
        ELSE IF type = "ComputePass" /\ ComputeRuns(c, isDebug)
        THEN IF NoProgram(c, i) THEN c
             ELSE [c EXCEPT !.events = Append(@, Ev("dispatch", it, c.m_shaders[i + 1], 0))]
        ELSE IF type = "AudioPass" /\ ~isDebug
        THEN [c EXCEPT !.events = Append(@, Ev("audio", it, 0, 0))]
        ELSE IF type = "PluginItem" /\ ~isDebug
        THEN [c EXCEPT !.events = Append(@, Ev("plugin", it, 0, 0))]
        ELSE c

\* lines 166-512: the single ordered traversal of m_items
RECURSIVE RenderItems(_, _, _, _)
RenderItems(c, i, isDebug, abortRead) ==
    IF c.crashed \/ i >= Len(c.m_items) THEN c
    ELSE RenderItems(RenderItem(c, i, isDebug, abortRead), i + 1, isDebug, abortRead)

\* lines 516-519: the frame index update
AdvanceFrame(c) ==
    IF ~c.m_paused THEN [c EXCEPT !.frameIndex = (@ + 1) % FrameWrap] ELSE c

\* lines 524-531: the resolution of a pending pick
ResolvePick(c) ==
    IF c.m_pickAwaiting
    THEN LET pick == IF c.m_pickDist = Infinity THEN <<>> ELSE c.m_pick IN
         [c EXCEPT !.m_pick = pick,
                   !.callbacks = IF c.m_pickHandle
                                 THEN Append(@, IF Len(pick) = 0 THEN NoItem
                                                ELSE pick[Len(pick)])
                                 ELSE @,
                   !.m_pickAwaiting = FALSE]
    ELSE c

\* lines 516-531: frame index update and the resolution of a pending pick
FinishFrame(c) == IF c.crashed THEN c ELSE ResolvePick(AdvanceFrame(c))

\* Render as a function of the engine state
RenderBody(c, items, isDebug, abort, garbage, abortRead) ==
    FinishFrame(RenderItems(m_cache(c, items, abort, garbage), 0, isDebug, abortRead))

(***************************************************************************)
(* GetPipelineItemByID, lines 1626-1654: <<pass, item>> of the id, or      *)
(* <<NoItem, NoItem>>.                                                     *)
(***************************************************************************)
\* lines 1639-1649: the children of pass i from child j on, counting from debugID;
\* the result is <<found, item, debugID>>
RECURSIVE ScanChildren(_, _, _, _)
ScanChildren(pass, j, debugID, id) ==
    IF j >= Len(passes[pass].Items) THEN <<FALSE, NoItem, debugID>>
    ELSE LET item == passes[pass].Items[j + 1] IN
         IF children[item].Type \in {"Geometry", "Model"}
         THEN IF debugID = id THEN <<TRUE, item, debugID>>
              ELSE ScanChildren(pass, j + 1, debugID + 1, id)
         ELSE ScanChildren(pass, j + 1, debugID, id)

RECURSIVE ScanPasses(_, _, _, _)
ScanPasses(c, i, debugID, id) ==
    IF i >= Len(c.m_items) THEN <<NoItem, NoItem>>
    ELSE LET it   == c.m_items[i + 1]
             data == passes[it]
         IN  IF data.Type = "ShaderPass"
             THEN IF ~data.Active \/ Len(data.Items) <= 0 \/ data.RTCount = 0
                     \/ NoProgram(c, i)
                  THEN ScanPasses(c, i + 1, debugID, id)
                  ELSE LET r == ScanChildren(it, 0, debugID, id) IN
                       IF r[1] THEN <<it, r[2]>>
                       ELSE ScanPasses(c, i + 1, r[3], id)
             ELSE ScanPasses(c, i + 1, debugID, id)

GetPipelineItemByID(c, id) == ScanPasses(c, 0, DEBUG_ID_START, id)

(***************************************************************************)
(* The engine state as one record, and back.                               *)
(***************************************************************************)
Engine ==
    [m_items |-> m_items, m_shaders |-> m_shaders, m_debugShaders |-> m_debugShaders,
     m_shaderSources |-> m_shaderSources, m_fbos |-> m_fbos, m_fboCount |-> m_fboCount,
     m_fboMS |-> m_fboMS, m_fbosNeedUpdate |-> m_fbosNeedUpdate, passFBO |-> passFBO,
     passDepth |-> passDepth, fboColors |-> fboColors, live |-> live, compileGen |-> compileGen,
     fboGen |-> fboGen,
     m_cacheTimer |-> m_cacheTimer, m_paused |-> m_paused, frameIndex |-> frameIndex,
     m_pick |-> m_pick, m_pickAwaiting |-> m_pickAwaiting, m_pickDist |-> m_pickDist,
     m_wasMultiPick |-> m_wasMultiPick, m_pickHandle |-> m_pickHandle, pickRay |-> pickRay,
     crashed |-> crashed, uniformInfo |-> uniformInfo, m_msgs |-> m_msgs, m_pixels |-> m_pixels,
     ops |-> NoOps, oob |-> FALSE, events |-> <<>>, frames |-> <<>>, custom |-> <<>>,
     freed |-> <<>>,
     callbacks |-> <<>>, tested |-> {},
     previousTexture |-> [k \in 1..MAX_RENDER_TEXTURES |-> 0], previousDepth |-> 0,
     clearedWindow |-> FALSE, debugID |-> DEBUG_ID_START]

Commit(c) ==
    /\ m_items' = c.m_items
    /\ m_shaders' = c.m_shaders
    /\ m_debugShaders' = c.m_debugShaders
    /\ m_shaderSources' = c.m_shaderSources
    /\ m_fbos' = c.m_fbos
    /\ m_fboCount' = c.m_fboCount
    /\ m_fboMS' = c.m_fboMS
    /\ m_fbosNeedUpdate' = c.m_fbosNeedUpdate
    /\ passFBO' = c.passFBO
    /\ passDepth' = c.passDepth
    /\ fboColors' = c.fboColors
    /\ live' = c.live
    /\ compileGen' = c.compileGen
    /\ fboGen' = c.fboGen
    /\ m_cacheTimer' = c.m_cacheTimer
    /\ frameIndex' = c.frameIndex
    /\ m_pick' = c.m_pick
    /\ m_pickAwaiting' = c.m_pickAwaiting
    /\ m_pickDist' = c.m_pickDist
    /\ crashed' = c.crashed
    /\ uniformInfo' = c.uniformInfo
    /\ m_msgs' = c.m_msgs
    /\ lastCache' = c.ops.ran

(***************************************************************************)
(* The shader preprocessor.  m_applyMacros works on the text as a sequence *)
(* of characters.                                                          *)
(***************************************************************************)
\* std::string::npos is (size_t)-1: npos + 1 wraps to 0
npos == 0 - 1

\* the characters of "#version"
VersionDirective == <<"#", "v", "e", "r", "s", "i", "o", "n">>

\* std::string::find_first_of(set, pos): the first position >= pos that holds
\* one of the characters of set
find_first_of(s, set, pos) ==
    LET hits == {k \in 0..(Len(s) - 1) : k >= pos /\ s[k + 1] \in set}
    IN  IF hits = {} THEN npos ELSE CHOOSE k \in hits : \A h \in hits : k <= h

\* std::string::insert(pos, str)
InsertText(s, pos, str) == SubSeq(s, 1, pos) \o str \o SubSeq(s, pos + 1, Len(s))

\* lines 2002-2008: one "#define NAME VALUE\n" per active macro, in list order
RECURSIVE StrMacro(_, _)
StrMacro(ms, k) ==
    IF k > Len(ms) THEN <<>>
    ELSE (IF ~ms[k].Active THEN <<>>
          ELSE <<"#", "d", "e", "f", "i", "n", "e", " ">>
               \o <<ms[k].Name, " ", ms[k].Value, "\n">>)
         \o StrMacro(ms, k + 1)

\* lines 1996-2012
m_applyMacros(s, ms) ==
    LET verLoc   == find_first_of(s, Range(VersionDirective), 0)
        lineLoc  == find_first_of(s, {"\n"}, verLoc + 1) + 1
        strMacro == StrMacro(ms, 1)
    IN  IF Len(strMacro) > 0 THEN InsertText(s, lineLoc, strMacro) ELSE s

(***************************************************************************)
(* m_includeCheck, lines 2047-2099, works on the text as a sequence of     *)
(* lines.  A line is the name of a file when it is "#include" of that file *)
(* at the start of the line, "emb" when it holds "#include" elsewhere,     *)
(* "txt" for any other text and "" once erased.  Positions are 0-based     *)
(* line numbers.                                                           *)
(***************************************************************************)
FileNames == {"A", "B", "C"}

\* a name no project file has
Missing == "Z"

IncludeLines == FileNames \cup {Missing}

\* lines 2049, 2055-2064, 2097: src.find("#include", from), repeated while the
\* position found is not at the start of a line
NextInclude(text, from) ==
    LET hits == {k \in 0..(Len(text) - 1) : k >= from /\ text[k + 1] \in IncludeLines}
    IN  IF hits = {} THEN npos ELSE CHOOSE k \in hits : \A h \in hits : k <= h

\* lines 2071-2076: the path tried is a directory and the file name
IPath(dir, fileName) == <<dir, fileName>>

\* m_project->FileExists(ipath)
FileExists(ipath) == ipath[2] \in FileNames /\ ipath[1] \in fileDirs[ipath[2]]

\* lines 2080, 2083: std::count(includeStack.begin(), includeStack.end(), ipath) > 0
InStack(includeStack, ipath) == Contains(includeStack, ipath)

\* an activation of m_includeCheck at its entry
Activation(text, includeStack) ==
    [src |-> text, includeStack |-> includeStack, phase |-> "find", from |-> 0,
     incLoc |-> 0, fileName |-> "", i |-> 0]

(***************************************************************************)
(* The operations.                                                         *)
(***************************************************************************)
\* what an unchecked read past the end of the pipeline list may yield
GarbageChoices(lo, hi) == [lo..hi -> PassIds \cup {NoItem}]

\* the outcomes of one Render call on engine state e: one, unless the call
\* reads outside a vector
OutcomesFrom(e, strict, isDebug) ==
    IF ~strict.crashed THEN {strict}
    ELSE {strict}
         \cup {RenderBody(e, pipeline, isDebug, FALSE, g, a) :
                 g \in GarbageChoices(Len(pipeline), Len(strict.m_items) - 1),
                 a \in BOOLEAN}

OutcomesBeside(strict, isDebug) == OutcomesFrom(Engine, strict, isDebug)

RenderOutcomes(isDebug) ==
    OutcomesBeside(RenderBody(Engine, pipeline, isDebug, TRUE, <<>>, TRUE), isDebug)

\* a Render call with outcome c
RenderAs(isDebug, c) ==
    /\ ~crashed
    /\ \A p \in PassIds : c.compileGen[p] <= MaxGen /\ c.fboGen[p] <= MaxGen
    /\ Commit(c)
    /\ lastOp' = IF isDebug THEN "RenderDebug" ELSE "Render"
    /\ UNCHANGED <<passes, pipeline, msaa, m_paused, m_wasMultiPick, m_pickHandle, pickRay,
                   macroVars, incVars, m_pixels>>

Render(isDebug) == \E c \in RenderOutcomes(isDebug) : RenderAs(isDebug, c)

\* lines 1655-1679
FlushCache ==
    /\ ~crashed
    /\ live' = live \ UNION {{m_shaderSources[k].VS, m_shaderSources[k].PS,
                              m_shaderSources[k].GS, m_shaders[k]} : k \in 1..Len(m_shaders)}
    /\ m_fbos' = [p \in PassIds |-> <<>>]
    /\ m_fboCount' = [p \in PassIds |-> 0]
    /\ m_items' = <<>>
    /\ m_shaders' = <<>>
    /\ m_shaderSources' = <<>>
    /\ m_fbosNeedUpdate' = TRUE
    /\ lastOp' = "FlushCache"
    /\ UNCHANGED <<passes, pipeline, m_debugShaders, m_fboMS, passFBO, passDepth, fboColors,
                   msaa, compileGen, fboGen, m_cacheTimer, m_paused, frameIndex, pickVars,
                   lastCache, crashed, macroVars, incVars, diagVars, m_pixels>>

\* lines 1067-1077
Pause(pause) ==
    /\ ~crashed
    /\ m_paused' = pause
    /\ lastOp' = "Pause"
    /\ UNCHANGED <<passes, pipeline, cacheVars, fboVars, msaa, live, compileGen, fboGen, m_cacheTimer,
                   frameIndex, pickVars, lastCache, crashed, macroVars, incVars, diagVars>>
    /\ m_pixels' = <<>>

\* lines 1430-1449: the ray is represented by what it hits
Pick(ray, multiPick, func) ==
    /\ ~crashed
    /\ m_pickAwaiting' = TRUE
    /\ m_pickDist' = Infinity
    /\ m_pickHandle' = func
    /\ m_wasMultiPick' = multiPick
    /\ pickRay' = ray
    /\ lastOp' = "Pick"
    /\ UNCHANGED <<passes, pipeline, cacheVars, fboVars, msaa, live, compileGen, fboGen, m_cacheTimer,
                   m_paused, frameIndex, m_pick, lastCache, crashed,
                   macroVars, incVars, diagVars, m_pixels>>

\* lines 1450-1474
PickItem(item, add) ==
    /\ ~crashed
    /\ m_pick' = AddPickedItem(m_pick, item, add)
    /\ lastOp' = "PickItem"
    /\ UNCHANGED <<passes, pipeline, cacheVars, fboVars, msaa, live, compileGen, fboGen, m_cacheTimer,
                   m_paused, frameIndex, m_pickAwaiting, m_pickDist, m_wasMultiPick,
                   m_pickHandle, pickRay, lastCache, crashed, macroVars, incVars, diagVars, m_pixels>>

\* m_applyMacros(src, pass) applied to the source of a shader
ApplyMacros ==
    /\ lastOp = "init"
    /\ Len(src) > 0
    /\ macroOut' = m_applyMacros(src, macros)
    /\ lastOp' = "m_applyMacros"
    /\ UNCHANGED <<passes, pipeline, cacheVars, fboVars, msaa, live, compileGen, fboGen,
                   m_cacheTimer, m_paused, frameIndex, pickVars, lastCache, crashed,
                   src, macros, incVars, diagVars, m_pixels>>

incUnchanged == <<passes, pipeline, cacheVars, fboVars, msaa, live, compileGen, fboGen,
                  m_cacheTimer, m_paused, frameIndex, pickVars, lastCache, crashed,
                  macroVars, files, paths, fileDirs, diagVars, m_pixels>>

\* lines 1742, 1760: m_includeCheck(content, std::vector<std::string>(), lineBias)
\* on the content of shader file A
IncludeCall ==
    /\ lastOp = "init"
    /\ Len(paths) > 0
    /\ incFrames' = <<Activation(files["A"], <<>>)>>
    /\ incDone' = FALSE
    /\ lastOp' = "m_includeCheck"
    /\ UNCHANGED <<incUnchanged, incMsgs, lineBias>>

\* lines 2055-2068, 2097: the innermost activation looks for its next #include
IncludeFind ==
    /\ ~incDone
    /\ Len(incFrames) > 0
    /\ LET d   == Len(incFrames)
           f   == incFrames[d]
           loc == NextInclude(f.src, f.from)
       IN  /\ f.phase = "find"
           /\ loc # npos
           /\ incFrames' = [incFrames EXCEPT ![d] =
                  [f EXCEPT !.phase = "paths", !.incLoc = loc,
                            !.fileName = f.src[loc + 1], !.i = 0]]
    /\ lastOp' = "m_includeCheck"
    /\ UNCHANGED <<incUnchanged, incMsgs, incDone, lineBias>>

\* lines 2070-2095: one round of the loop over the include paths
IncludeTryPath ==
    /\ ~incDone
    /\ Len(incFrames) > 0
    /\ LET d     == Len(incFrames)
           f     == incFrames[d]
       IN  /\ f.phase = "paths"
           /\ IF f.i >= Len(paths)
              THEN /\ incFrames' = [incFrames EXCEPT ![d] =
                          [f EXCEPT !.phase = "find", !.from = f.incLoc + 1]]
                   /\ UNCHANGED <<incMsgs, lineBias>>
              ELSE LET ipath  == IPath(paths[f.i + 1], f.fileName)
                       erased == [f EXCEPT !.src = SetAt(@, f.incLoc, "")]
                       seen   == InStack(f.includeStack, ipath)
                   IN  /\ incMsgs' = IF seen THEN incMsgs + 1 ELSE incMsgs
                       /\ IF FileExists(ipath) /\ ~seen
                          THEN /\ Len(incFrames) < MaxDepth
                               /\ incFrames' =
                                    Append([incFrames EXCEPT ![d] =
                                              [erased EXCEPT !.includeStack = Append(@, ipath),
                                                             !.phase = "call"]],
                                           Activation(files[f.fileName],
                                                      Append(f.includeStack, ipath)))
                               /\ lineBias' = Len(files[f.fileName])
                          ELSE /\ incFrames' = [incFrames EXCEPT ![d] =
                                      [erased EXCEPT !.i = f.i + 1]]
                               /\ UNCHANGED lineBias
    /\ lastOp' = "m_includeCheck"
    /\ UNCHANGED <<incUnchanged, incDone>>

\* lines 2055, 2089-2097: the innermost activation finds no further #include and
\* returns; its caller inserts the text, leaves the loop over the paths and goes on
IncludeReturn ==
    /\ ~incDone
    /\ Len(incFrames) > 0
    /\ LET d == Len(incFrames)
           f == incFrames[d]
       IN  /\ f.phase = "find"
           /\ NextInclude(f.src, f.from) = npos
           /\ IF d = 1
              THEN /\ incDone' = TRUE
                   /\ UNCHANGED incFrames
              ELSE LET g == incFrames[d - 1] IN
                   /\ incFrames' = [SubSeq(incFrames, 1, d - 1) EXCEPT ![d - 1] =
                          [g EXCEPT !.src = SubSeq(@, 1, g.incLoc) \o f.src
                                              \o SubSeq(@, g.incLoc + 1, Len(@)),
                                    !.phase = "find", !.from = g.incLoc + 1]]
                   /\ UNCHANGED incDone
    /\ lastOp' = "m_includeCheck"
    /\ UNCHANGED <<incUnchanged, incMsgs, lineBias>>

(***************************************************************************)
(* The collaborators: the pipeline source edits the list, time passes.     *)
(***************************************************************************)
envUnchanged == <<passes, cacheVars, fboVars, msaa, live, compileGen, fboGen, m_paused, frameIndex,
                  pickVars, lastCache, crashed, macroVars, incVars, diagVars, m_pixels>>

AddItem(id) ==
    /\ ~crashed
    /\ passes[id].Type # "Unused"
    /\ ~Contains(pipeline, id)
    /\ Len(pipeline) < MaxLen
    /\ pipeline' = Append(pipeline, id)
    /\ lastOp' = "edit"
    /\ UNCHANGED <<envUnchanged, m_cacheTimer>>

RemoveItem(k) ==
    /\ ~crashed
    /\ k < Len(pipeline)
    /\ pipeline' = EraseAt(pipeline, k)
    /\ lastOp' = "edit"
    /\ UNCHANGED <<envUnchanged, m_cacheTimer>>

MoveItemDown(k) ==
    /\ ~crashed
    /\ k + 1 < Len(pipeline)
    /\ pipeline' = [pipeline EXCEPT ![k + 1] = pipeline[k + 2], ![k + 2] = pipeline[k + 1]]
    /\ lastOp' = "edit"
    /\ UNCHANGED <<envUnchanged, m_cacheTimer>>

\* the project file is parsed: every pass of the project enters the list
LoadProject ==
    /\ ~crashed
    /\ pipeline = <<>>
    /\ pipeline' = SelectSeq(<<1, 2, 3, 4, 5>>, LAMBDA p : passes[p].Type # "Unused")
    /\ lastOp' = "edit"
    /\ UNCHANGED <<envUnchanged, m_cacheTimer>>

Tick ==
    /\ ~crashed
    /\ m_cacheTimer < MaxTimer
    /\ m_cacheTimer' = m_cacheTimer + 1
    /\ lastOp' = "Tick"
    /\ UNCHANGED <<envUnchanged, pipeline>>

(***************************************************************************)
(* The engine after construction (lines 63-100), with a project loaded.    *)
(***************************************************************************)
Unused == OtherPass("Unused", FALSE, FALSE)

\* a project of four shader passes, the last of which does not compile
ProjectShaders ==
    [p \in PassIds |->
        CASE p = 1 -> ShaderPass(<<11, 13, 12>>, <<m_rtColor>>, FALSE, TRUE, TRUE, TRUE)
          [] p = 2 -> ShaderPass(<<16>>, <<2>>, TRUE, TRUE, TRUE, TRUE)
          [] p = 3 -> ShaderPass(<<14>>, <<m_rtColor>>, FALSE, TRUE, TRUE, TRUE)
          [] p = 4 -> ShaderPass(<<15, 11>>, <<2, 3>>, FALSE, TRUE, FALSE, TRUE)
          [] p = 5 -> Unused]

\* a shader pass and a shader pass with a geometry stage
ProjectGS ==
    [p \in PassIds |->
        CASE p = 1 -> ShaderPass(<<11, 13, 12>>, <<m_rtColor>>, FALSE, TRUE, TRUE, TRUE)
          [] p = 2 -> ShaderPass(<<16>>, <<2>>, TRUE, TRUE, TRUE, TRUE)
          [] OTHER -> Unused]

\* a shader pass and a shader pass that does not compile
ProjectFailShader ==
    [p \in PassIds |->
        CASE p = 1 -> ShaderPass(<<11, 13, 12>>, <<m_rtColor>>, FALSE, TRUE, TRUE, TRUE)
          [] p = 4 -> ShaderPass(<<15, 11>>, <<2, 3>>, FALSE, TRUE, FALSE, TRUE)
          [] OTHER -> Unused]

\* a shader pass and two compute passes, one of which does not compile
ProjectCompute ==
    [p \in PassIds |->
        CASE p = 1 -> ShaderPass(<<11, 13, 12>>, <<m_rtColor>>, FALSE, TRUE, TRUE, TRUE)
          [] p = 3 -> OtherPass("ComputePass", TRUE, TRUE)
          [] p = 5 -> OtherPass("ComputePass", TRUE, FALSE)
          [] OTHER -> Unused]

\* one shader pass that draws a model before a cube
ProjectModelFirst ==
    [p \in PassIds |->
        CASE p = 3 -> ShaderPass(<<12, 11>>, <<m_rtColor>>, FALSE, TRUE, TRUE, TRUE)
          [] OTHER -> Unused]

Projects == {ProjectGS, ProjectFailShader, ProjectCompute}

Miss == [dist |-> Infinity, tris |-> <<>>]

NoRay == [c \in ChildIds |-> Miss]

\* what a pick ray can hit: the cube or not, the model's bounding box (at
\* distance 1) or not, and then each of the model's triangles at any distance
\* or not at all
Rays ==
    {[c \in ChildIds |->
         CASE c = 11 -> [dist |-> cube, tris |-> <<>>]
           [] c = 12 -> model
           [] OTHER  -> Miss] :
       cube \in {MaxDist - 1, Infinity},
       model \in {Miss} \cup {[dist |-> 1, tris |-> t] : t \in [1..MaxTris -> Dists]}}

InitEngine ==
    /\ m_items = <<>>
    /\ m_shaders = <<>>
    /\ m_debugShaders = <<>>
    /\ m_shaderSources = <<>>
    /\ m_fbos = [p \in PassIds |-> <<>>]
    /\ m_fboCount = [p \in PassIds |-> 0]
    /\ m_fboMS = [p \in PassIds |-> 0]
    /\ m_fbosNeedUpdate = FALSE
    /\ passFBO = [p \in PassIds |-> 0]
    /\ passDepth = [p \in PassIds |-> 0]
    /\ fboColors = [p \in PassIds |-> <<>>]
    /\ live = {}
    /\ compileGen = [p \in PassIds |-> 0]
    /\ fboGen = [p \in PassIds |-> 0]
    /\ m_cacheTimer = 0
    /\ m_paused = FALSE
    /\ frameIndex = 0
    /\ m_pick = <<>>
    /\ m_pickAwaiting = FALSE
    /\ m_pickDist = Infinity
    /\ m_wasMultiPick = FALSE
    /\ m_pickHandle = FALSE
    /\ pickRay = NoRay
    /\ lastOp = "init"
    /\ lastCache = FALSE
    /\ crashed = FALSE
    /\ uniformInfo = [p \in PassIds |-> 0]
    /\ m_msgs = [p \in PassIds |-> 0]
    /\ m_pixels = <<>>

InitPreprocessorIdle ==
    /\ src = <<>>
    /\ macros = <<>>
    /\ macroOut = <<>>
    /\ files = <<>>
    /\ paths = <<>>
    /\ fileDirs = <<>>
    /\ incFrames = <<>>
    /\ incMsgs = 0
    /\ incDone = TRUE
    /\ lineBias = 0

InitWith(project) ==
    /\ InitEngine
    /\ InitPreprocessorIdle
    /\ passes = project
    /\ pipeline = <<>>
    /\ msaa = FALSE

\* the engine with one of the small projects: edits, time, frames, pause
Init == \E project \in Projects : InitWith(project)

Next ==
    \/ \E id \in PassIds : AddItem(id)
    \/ \E k \in 0..(MaxLen - 1) : RemoveItem(k)
    \/ \E k \in 0..(MaxLen - 1) : MoveItemDown(k)
    \/ Tick
    \/ \E isDebug \in BOOLEAN : Render(isDebug)
    \/ \E pause \in BOOLEAN : Pause(pause)

Spec == Init /\ [][Next]_vars

\* the four shader passes of a project, loaded at once and then reordered
InitReorder == InitWith(ProjectShaders)

NextReorder ==
    \/ LoadProject
    \/ \E k \in 0..(MaxLen - 1) : MoveItemDown(k)
    \/ Tick
    \/ Render(FALSE)

SpecReorder == InitReorder /\ [][NextReorder]_vars

\* the cache flushed between frames
InitFlush == InitWith(ProjectGS)

NextFlush ==
    \/ \E id \in PassIds : AddItem(id)
    \/ \E k \in 0..(MaxLen - 1) : RemoveItem(k)
    \/ \E isDebug \in BOOLEAN : Render(isDebug)
    \/ FlushCache

SpecFlush == InitFlush /\ [][NextFlush]_vars

\* picking: a project is loaded, items are selected by hand or by a ray
InitPick == \E project \in {ProjectFailShader, ProjectModelFirst} : InitWith(project)

NextPick ==
    \/ LoadProject
    \/ \E ray \in Rays, multiPick \in BOOLEAN, func \in BOOLEAN : Pick(ray, multiPick, func)
    \/ \E item \in {NoItem, 11, 12}, add \in BOOLEAN : PickItem(item, add)
    \/ \E isDebug \in BOOLEAN : Render(isDebug)

SpecPick == InitPick /\ [][NextPick]_vars

\* the preprocessor on its own: the texts are sequences of lines, each ended by
\* a newline
VersionLine == VersionDirective \o <<" ", "3", "\n">>

CommentLine == <<"/", "/", " ", "n", "o", "t", "e", "\n">>

BannerLine == <<"/", "*", "=", "*", "/", "\n">>

CodeLine == <<"x", "=", "1", ";", "\n">>

LineKinds == {VersionLine, CommentLine, BannerLine, CodeLine}

RECURSIVE Flatten(_, _)
Flatten(ls, k) == IF k > Len(ls) THEN <<>> ELSE ls[k] \o Flatten(ls, k + 1)

Texts == {Flatten(ls, 1) : ls \in UNION {[1..n -> LineKinds] : n \in 1..MaxLines}}

Macro == [Name : {"A", "B"}, Value : {"1"}, Active : BOOLEAN]

MacroLists == UNION {[1..n -> Macro] : n \in 0..MaxMacros}

InitMacros ==
    /\ InitEngine
    /\ passes = ProjectGS
    /\ pipeline = <<>>
    /\ msaa = FALSE
    /\ src \in Texts
    /\ macros \in MacroLists
    /\ macroOut = <<>>
    /\ files = <<>> /\ paths = <<>> /\ fileDirs = <<>> /\ incFrames = <<>>
    /\ incMsgs = 0 /\ incDone = TRUE /\ lineBias = 0

NextMacros == ApplyMacros

SpecMacros == InitMacros /\ [][NextMacros]_vars

\* two project files that may include each other: up to two lines each
CycleFiles == {"A", "B"}

FileTexts == UNION {[1..n -> CycleFiles \cup {Missing, "txt", "emb"}] : n \in 0..(MaxLines - 1)}

PathLists == {<<".">>, <<"inc", ".">>}

InitInclude ==
    /\ InitEngine
    /\ passes = ProjectGS
    /\ pipeline = <<>>
    /\ msaa = FALSE
    /\ src = <<>> /\ macros = <<>> /\ macroOut = <<>>
    /\ files \in [CycleFiles -> FileTexts]
    /\ paths \in {p \in PathLists : Len(p) <= MaxPaths}
    /\ fileDirs \in [CycleFiles -> SUBSET Range(paths) \ {{}}]
    /\ incFrames = <<>>
    /\ incMsgs = 0
    /\ incDone = FALSE
    /\ lineBias = 0

NextInc ==
    \/ IncludeCall
    \/ IncludeFind
    \/ IncludeTryPath
    \/ IncludeReturn

\* the code of m_includeCheck runs on: no step of it waits for anything
SpecInclude == InitInclude /\ [][NextInc]_vars /\ WF_vars(NextInc)

\* three project files: A includes B and C, B includes C or a file that is
\* missing, C includes A; B and C may exist in either directory
SpliceFiles ==
    {[n \in FileNames |-> CASE n = "A" -> a [] n = "B" -> b [] n = "C" -> c] :
        a \in UNION {[1..n -> {"B", "C", "emb"}] : n \in 1..MaxLines},
        b \in UNION {[1..n -> {"C", "txt", Missing}] : n \in 0..(MaxLines - 1)},
        c \in {<<>>, <<"txt">>, <<"A">>}}

InitSplice ==
    /\ InitEngine
    /\ passes = ProjectGS
    /\ pipeline = <<>>
    /\ msaa = FALSE
    /\ src = <<>> /\ macros = <<>> /\ macroOut = <<>>
    /\ files \in SpliceFiles
    /\ paths \in {p \in PathLists : Len(p) <= MaxPaths}
    /\ fileDirs \in {d \in [FileNames -> SUBSET Range(paths) \ {{}}] : d["A"] = {"."}}
    /\ incFrames = <<>>
    /\ incMsgs = 0
    /\ incDone = FALSE
    /\ lineBias = 0

SpecSplice == InitSplice /\ [][NextInc]_vars

(***************************************************************************)
(* The debugger's picks.  One call renders more than one frame; frames     *)
(* keeps what each of them did.                                            *)
(***************************************************************************)
MaxID == 3

\* the locals of Render (lines 160-166) are gone when the call returns
EndFrame(c, isDebug) ==
    [c EXCEPT !.frames = Append(@, [isDebug |-> isDebug, events |-> c.events]),
              !.events = <<>>,
              !.oob = @ \/ c.ops.oob,
              !.ops = NoOps,
              !.previousTexture = [k \in 1..MAX_RENDER_TEXTURES |-> 0],
              !.previousDepth = 0,
              !.clearedWindow = FALSE,
              !.debugID = DEBUG_ID_START]

\* a Render call made by another operation of the engine
FrameOutcomes(c, isDebug) ==
    IF c.crashed THEN {c}
    ELSE {EndFrame(o, isDebug) :
            o \in OutcomesFrom(c, RenderBody(c, pipeline, isDebug, TRUE, <<>>, TRUE), isDebug)}

\* DebugInformation::ClearPixelList
ClearPixelList(c) == [c EXCEPT !.m_pixels = <<>>]

\* lines 1982-1995: GSUsed of the last cached shader pass that renders to rt
m_isGSUsedSet(c, rt) ==
    LET users == {k \in 1..Len(c.m_items) :
                    /\ c.m_items[k] \in PassIds
                    /\ passes[c.m_items[k]].Type = "ShaderPass"
                    /\ \E j \in 1..passes[c.m_items[k]].RTCount :
                          passes[c.m_items[k]].RenderTextures[j] = rt}
    IN  users # {} /\ passes[c.m_items[CHOOSE k \in users : \A l \in users : l <= k]].GSUsed

\* lines 585-650: the textures in the order they are read back, the window first
ReadbackOrder == <<m_rtColor, 2, 3>>

\* the values a texture can hold at the picked pixel
PixelIDs == [Range(ReadbackOrder) -> 0..MaxID]

\* the events of the frame rendered last
LastFrame(c) == IF c.frames = <<>> THEN <<>> ELSE c.frames[Len(c.frames)].events

\* lines 585-590, 620-625: what glGetTexImage can return at the picked pixel of
\* tex after the debug frame: 0 or the ID of an item the frame drew to it when
\* the frame cleared it, and what was there before otherwise
IDsReadable(c, tex) ==
    IF \E k \in 1..Len(LastFrame(c)) :
          LastFrame(c)[k].k = "clearColor" /\ LastFrame(c)[k].item = tex
    THEN {0} \cup {LastFrame(c)[k].id :
                     k \in {l \in 1..Len(LastFrame(c)) :
                              /\ LastFrame(c)[l].k = "draw"
                              /\ Contains(passes[LastFrame(c)[l].pass].RenderTextures, tex)}}
    ELSE 0..MaxID

\* lines 591-613, 626-648: itemData.first->Data is read without a null check
AddPixel(c, tex, itemData) ==
    IF itemData[1] = NoItem THEN [c EXCEPT !.crashed = TRUE, !.oob = TRUE]
    ELSE [c EXCEPT !.m_pixels = Append(@, [RenderTexture |-> tex, Owner |-> itemData[1],
                                           Object |-> itemData[2]])]

\* lines 585-650: the ID of every texture is decoded into a pixel record
RECURSIVE ReadIDs(_, _, _)
ReadIDs(c, ids, k) ==
    IF c.crashed \/ k > Len(ReadbackOrder) THEN c
    ELSE IF ids[ReadbackOrder[k]] # 0 /\ ~m_isGSUsedSet(c, ReadbackOrder[k])
    THEN ReadIDs(AddPixel(c, ReadbackOrder[k], GetPipelineItemByID(c, ids[ReadbackOrder[k]])),
                 ids, k + 1)
    ELSE ReadIDs(c, ids, k + 1)

\* lines 536-656
DebugPixelPickOutcomes(ids) ==
    UNION {FrameOutcomes(ReadIDs(first, ids, 1), FALSE) :
             first \in {f \in FrameOutcomes(ClearPixelList(Engine), TRUE) :
                          \A tex \in DOMAIN ids : ids[tex] \in IDsReadable(f, tex)}}

\* an operation of the debugger with outcome c
DebugAs(op, c) ==
    /\ ~crashed
    /\ \A p \in PassIds : c.compileGen[p] <= MaxGen /\ c.fboGen[p] <= MaxGen
    /\ Commit(c)
    /\ m_pixels' = c.m_pixels
    /\ lastOp' = op
    /\ UNCHANGED <<passes, pipeline, msaa, m_paused, m_wasMultiPick, m_pickHandle, pickRay,
                   macroVars, incVars>>

DebugPixelPick(ids) == \E c \in DebugPixelPickOutcomes(ids) : DebugAs("DebugPixelPick", c)

\* three shader passes: to the window, with a geometry stage to one render
\* texture, and to another render texture
ProjectDebug ==
    [p \in PassIds |->
        CASE p = 1 -> ShaderPass(<<11, 13, 12>>, <<m_rtColor>>, FALSE, TRUE, TRUE, TRUE)
          [] p = 2 -> ShaderPass(<<16>>, <<2>>, TRUE, TRUE, TRUE, TRUE)
          [] p = 4 -> ShaderPass(<<15, 11>>, <<3>>, FALSE, TRUE, TRUE, TRUE)
          [] OTHER -> Unused]

\* lines 695-699, 894-898: the names of the vertex shader and the program a
\* vertex or instance pick builds
customVS == GLName(0, 1, 1)

customProgram == GLName(0, 1, 4)

\* lines 695-702: the user's vertex shader with the ID output, linked with the
\* pick shader of the engine
LinkCustomProgram(c, pass) ==
    [c EXCEPT !.live = @ \cup {customVS, customProgram},
              !.uniformInfo[pass] = customProgram]

\* lines 721-733: every render texture of the pass is cleared to 0
RECURSIVE ClearRTs(_, _, _)
ClearRTs(c, pass, k) ==
    IF k > MAX_RENDER_TEXTURES \/ passes[pass].RenderTextures[k] = 0 THEN c
    ELSE ClearRTs([c EXCEPT !.custom = Append(@, Ev("clearColor", pass,
                                                    passes[pass].RenderTextures[k], 0))],
                  pass, k + 1)

\* lines 770-834: the items of the pass; a Geometry or Model item other than
\* the target is skipped, a plugin item has no branch
RECURSIVE DrawTarget(_, _, _, _)
DrawTarget(c, pass, vertexItem, j) ==
    IF j >= Len(passes[pass].Items) THEN c
    ELSE IF children[passes[pass].Items[j + 1]].Type \in {"Geometry", "Model"}
    THEN IF passes[pass].Items[j + 1] # vertexItem
         THEN DrawTarget(c, pass, vertexItem, j + 1)
         ELSE DrawTarget([c EXCEPT !.custom = Append(@, Ev("draw", pass, vertexItem, 0))],
                         pass, vertexItem, j + 1)
    ELSE IF children[passes[pass].Items[j + 1]].Type = "RenderState"
    THEN DrawTarget([c EXCEPT !.custom = Append(@, Ev("state", pass,
                                                      passes[pass].Items[j + 1], 0))],
                    pass, vertexItem, j + 1)
    ELSE DrawTarget(c, pass, vertexItem, j + 1)

\* lines 713-741: framebuffer, depth, render textures, program
BindCustom(c, pass) ==
    [ClearRTs([c EXCEPT !.custom = <<Ev("bindFBO", pass, c.passFBO[pass], 0),
                                     Ev("clearDepth", pass, c.passDepth[pass], 0)>>],
              pass, 1)
       EXCEPT !.custom = Append(@, Ev("useProgram", pass, customProgram, 0))]

\* lines 845-852: the uniform locations of the pass's own program are looked
\* up again, if the pass is in the cache
RestoreAfterPick(c, pass) ==
    IF Contains(c.m_items, pass)
    THEN [c EXCEPT !.uniformInfo[pass] =
             c.m_shaders[CHOOSE k \in 1..Len(c.m_items) :
                           c.m_items[k] = pass /\ \A l \in 1..(k - 1) : c.m_items[l] # pass]]
    ELSE c

\* lines 857-858: glDeleteShader(vs); glDeleteProgram(customProgram)
DeleteCustom(c) ==
    IF c.crashed THEN c ELSE [c EXCEPT !.live = @ \ {customVS, customProgram}]

\* lines 657-861 and 862-1066: DebugVertexPick and DebugInstancePick differ in
\* the ID the custom program writes
DebugItemPickOutcomes(vertexData, vertexItem) ==
    {DeleteCustom(c) :
       c \in FrameOutcomes(
                RestoreAfterPick(
                    DrawTarget(BindCustom(LinkCustomProgram(Engine, vertexData), vertexData),
                               vertexData, vertexItem, 0),
                    vertexData),
                FALSE)}

\* the shader passes of the project; a PipelineItem* handed to the engine is an
\* item of the pipeline list
ShaderPasses == {p \in PassIds : passes[p].Type = "ShaderPass"}

DebugVertexPick(vertexData, vertexItem) ==
    /\ vertexData \in ShaderPasses \cap Range(pipeline)
    /\ \E c \in DebugItemPickOutcomes(vertexData, vertexItem) : DebugAs("DebugVertexPick", c)

DebugInstancePick(instanceData, instanceItem) ==
    /\ instanceData \in ShaderPasses \cap Range(pipeline)
    /\ \E c \in DebugItemPickOutcomes(instanceData, instanceItem) :
          DebugAs("DebugInstancePick", c)

(***************************************************************************)
(* Recompile and RecompileFromSource.  The text of a stage is "ok" when it *)
(* compiles, "bad" when it does not, and "" when the caller gives none.    *)
(***************************************************************************)
Sources == {"", "ok", "bad"}

\* gl::CheckShaderCompilationStatus of a stage that was compiled
Compiled(text) == text = "ok"

\* lines 1130-1168: Recompile compiles the pixel and the vertex stage from
\* their files, and the geometry stage when the pass uses one
StagesOfRecompile(data, srcs) ==
    [VS |-> TRUE, PS |-> TRUE, GS |-> data.GSUsed]

\* lines 1304-1351: RecompileFromSource compiles the stages it is given a text of
StagesOfSource(data, srcs) ==
    [VS |-> srcs.VS # "", PS |-> srcs.PS # "", GS |-> srcs.GS # "" /\ data.GSUsed]

\* lines 1096-1098: Recompile deletes the three shader objects at once; lines
\* 1312, 1322, 1328: RecompileFromSource those of the texts it is given
StagesDeleted(fromSource, srcs) ==
    IF fromSource THEN [VS |-> srcs.VS # "", PS |-> srcs.PS # "", GS |-> srcs.GS # ""]
    ELSE [VS |-> TRUE, PS |-> TRUE, GS |-> TRUE]

\* the shader objects of entry i after the stages in st were compiled; the
\* handle of a stage that is deleted and not compiled stays as it is in
\* RecompileFromSource and is 0 in Recompile
NewSources(c, it, i, st, fromSource) ==
    [VS |-> IF st.VS THEN VSName(it, c.compileGen[it] + 1) ELSE c.m_shaderSources[i + 1].VS,
     PS |-> IF st.PS THEN PSName(it, c.compileGen[it] + 1) ELSE c.m_shaderSources[i + 1].PS,
     GS |-> IF st.GS THEN GSName(it, c.compileGen[it] + 1)
            ELSE IF fromSource THEN c.m_shaderSources[i + 1].GS ELSE 0]

\* glDeleteShader of the stages in del
DeleteStages(c, i, del) ==
    glDelete(glDelete(glDelete(c, IF del.VS THEN c.m_shaderSources[i + 1].VS ELSE 0),
                      IF del.PS THEN c.m_shaderSources[i + 1].PS ELSE 0),
             IF del.GS THEN c.m_shaderSources[i + 1].GS ELSE 0)

\* lines 1169-1187, 1353-1368, 1233-1246, 1391-1405: the old program is
\* deleted, the new one is created when nothing failed
Relink(c, it, i, failed) ==
    IF failed
    THEN [glDelete(c, c.m_shaders[i + 1])
            EXCEPT !.m_shaders = SetAt(@, i, 0),
                   !.m_msgs[it] = 1,
                   !.compileGen[it] = @ + 1]
    ELSE [glDelete(c, c.m_shaders[i + 1])
            EXCEPT !.m_shaders = SetAt(@, i, ProgramName(it, c.compileGen[it] + 1)),
                   !.live = @ \cup {ProgramName(it, c.compileGen[it] + 1)},
                   !.m_msgs[it] = 0,
                   !.uniformInfo[it] = ProgramName(it, c.compileGen[it] + 1),
                   !.compileGen[it] = @ + 1]

\* lines 1091-1192, 1299-1371: a cached shader pass
RecompileShaderPass(c, it, i, st, del, srcs, fromSource) ==
    Relink([DeleteStages(c, i, del)
              EXCEPT !.m_shaderSources = SetAt(@, i, NewSources(c, it, i, st, fromSource)),
                     !.live = @ \cup {NewSources(c, it, i, st, fromSource)[f] :
                                        f \in {g \in {"VS", "PS", "GS"} : st[g]}}],
           it, i,
           \E f \in {"VS", "PS", "GS"} : st[f] /\ ~Compiled(srcs[f]))

\* lines 1193-1246: Recompile compiles the compute shader from its file; lines
\* 1372-1411: RecompileFromSource compiles the text it is given, and takes no
\* text for a failure
RecompileComputePass(c, it, i, srcs, fromSource) ==
    Relink(c, it, i, ~Compiled(srcs.VS))

\* the position of an identity in a list, from 0; the length when it is absent
IndexOf(list, it) ==
    IF Contains(list, it)
    THEN (CHOOSE k \in 1..Len(list) : list[k] = it /\ \A l \in 1..(k - 1) : list[l] # it) - 1
    ELSE Len(list)

\* lines 1087-1262, 1296-1426: the entry of the cache that has the name
RecompileEntry(c, it, srcs, fromSource) ==
    IF ~Contains(c.m_items, it) THEN c
    ELSE IF passes[it].Type = "ShaderPass"
    THEN RecompileShaderPass(c, it, IndexOf(c.m_items, it),
                             IF fromSource THEN StagesOfSource(passes[it], srcs)
                             ELSE StagesOfRecompile(passes[it], srcs),
                             StagesDeleted(fromSource, srcs), srcs, fromSource)
    ELSE IF passes[it].Type = "ComputePass"
    THEN RecompileComputePass(c, it, IndexOf(c.m_items, it), srcs, fromSource)
    ELSE c

\* lines 1078-1264, 1290-1429: the entry is recompiled and a frame is rendered
RecompileOutcomes(it, srcs, fromSource) ==
    FrameOutcomes(RecompileEntry(Engine, it, srcs, fromSource), FALSE)

\* the texts of the files of a pass: none is missing
FileSources == [{"VS", "PS", "GS"} -> Sources \ {""}]

GivenSources == [{"VS", "PS", "GS"} -> Sources]

Recompile(name, srcs) ==
    /\ name \in Range(pipeline)
    /\ \E c \in RecompileOutcomes(name, srcs, FALSE) : DebugAs("Recompile", c)

RecompileFromSource(name, srcs) ==
    /\ name \in Range(pipeline)
    /\ \E c \in RecompileOutcomes(name, srcs, TRUE) : DebugAs("RecompileFromSource", c)

\* the shaders of a loaded project are edited and recompiled
InitRecompile == \E project \in {ProjectGS, ProjectCompute} : InitWith(project)

NextRecompile ==
    \/ LoadProject
    \/ Render(FALSE)
    \/ \E name \in PassIds, srcs \in FileSources : Recompile(name, srcs)
    \/ \E name \in PassIds, srcs \in GivenSources : RecompileFromSource(name, srcs)

SpecRecompile == InitRecompile /\ [][NextRecompile]_vars

\* the debugger at work on a loaded project
InitDebug == \E project \in {ProjectDebug, ProjectFailShader} : InitWith(project)

NextDebug ==
    \/ LoadProject
    \/ Render(FALSE)
    \/ \E pause \in BOOLEAN : Pause(pause)
    \/ \E ids \in PixelIDs : DebugPixelPick(ids)
    \/ \E pass \in PassIds, item \in ChildIds : DebugVertexPick(pass, item)
    \/ \E pass \in PassIds, item \in ChildIds : DebugInstancePick(pass, item)

SpecDebug == InitDebug /\ [][NextDebug]_vars

(***************************************************************************)
(* The render-target array of a pass is edited while the engine runs.      *)
(***************************************************************************)
\* the render-target arrays the property editor can set
RTLists == {<<2>>, <<3>>, <<3, 2>>}

\* the editor writes RenderTextures and RTCount of a shader pass
SetRenderTextures(pass, rts) ==
    /\ ~crashed
    /\ passes[pass].Type = "ShaderPass"
    /\ passes[pass].RTCount # Len(rts)
          \/ \E k \in 1..Len(rts) : passes[pass].RenderTextures[k] # rts[k]
    /\ passes' = [passes EXCEPT
                    ![pass].RenderTextures =
                        [k \in 1..MAX_RENDER_TEXTURES |-> IF k <= Len(rts) THEN rts[k] ELSE 0],
                    ![pass].RTCount = Len(rts)]
    /\ lastOp' = "edit"
    /\ UNCHANGED <<pipeline, cacheVars, fboVars, msaa, live, compileGen, fboGen, m_cacheTimer,
                   m_paused, frameIndex, pickVars, lastCache, crashed, macroVars, incVars,
                   diagVars, m_pixels>>

\* two shader passes, one to the window and one to a render texture
ProjectFBO ==
    [p \in PassIds |->
        CASE p = 1 -> ShaderPass(<<11>>, <<m_rtColor>>, FALSE, TRUE, TRUE, TRUE)
          [] p = 2 -> ShaderPass(<<16>>, <<2>>, FALSE, TRUE, TRUE, TRUE)
          [] OTHER -> Unused]

\* render targets edited, passes removed and added again, the cache flushed
InitFBO ==
    /\ InitEngine
    /\ InitPreprocessorIdle
    /\ passes = ProjectFBO
    /\ pipeline = <<>>
    /\ msaa \in BOOLEAN

NextFBO ==
    \/ \E id \in PassIds : AddItem(id)
    \/ \E k \in 0..(MaxLen - 1) : RemoveItem(k)
    \/ \E rts \in RTLists : SetRenderTextures(2, rts)
    \/ Render(FALSE)
    \/ FlushCache

SpecFBO == InitFBO /\ [][NextFBO]_vars

\* four shader passes whose render targets overlap: two render textures then
\* the window, one render texture, the window with a render texture, and a
\* pass that does not compile
ProjectClear ==
    [p \in PassIds |->
        CASE p = 1 -> ShaderPass(<<11>>, <<3, 2>>, FALSE, TRUE, TRUE, TRUE)
          [] p = 2 -> ShaderPass(<<16>>, <<m_rtColor>>, FALSE, TRUE, TRUE, TRUE)
          [] p = 3 -> ShaderPass(<<14>>, <<2>>, FALSE, TRUE, TRUE, TRUE)
          [] p = 4 -> ShaderPass(<<12>>, <<m_rtColor, 3>>, FALSE, TRUE, TRUE, TRUE)
          [] p = 5 -> Unused]

\* the passes of the project in any order, rendered normally and for debugging
InitClear == InitWith(ProjectClear)

NextClear ==
    \/ LoadProject
    \/ \E k \in 0..(MaxLen - 1) : MoveItemDown(k)
    \/ \E isDebug \in BOOLEAN : Render(isDebug)

SpecClear == InitClear /\ [][NextClear]_vars

\* one item of every type: a shader pass, a shader pass with a geometry stage,
\* a compute pass, an audio pass and a plugin item
ProjectKinds ==
    [p \in PassIds |->
        CASE p = 1 -> ShaderPass(<<11, 13, 12>>, <<m_rtColor>>, FALSE, TRUE, TRUE, TRUE)
          [] p = 2 -> ShaderPass(<<16>>, <<2>>, TRUE, TRUE, TRUE, TRUE)
          [] p = 3 -> OtherPass("ComputePass", TRUE, TRUE)
          [] p = 4 -> OtherPass("AudioPass", TRUE, TRUE)
          [] p = 5 -> OtherPass("PluginItem", TRUE, TRUE)]

\* a shader pass beside an inactive one, one without child items and one
\* without render targets
ProjectSkipped ==
    [p \in PassIds |->
        CASE p = 1 -> ShaderPass(<<11, 13, 12>>, <<m_rtColor>>, FALSE, TRUE, TRUE, TRUE)
          [] p = 2 -> ShaderPass(<<16>>, <<2>>, FALSE, TRUE, TRUE, FALSE)
          [] p = 3 -> ShaderPass(<<>>, <<2>>, FALSE, TRUE, TRUE, TRUE)
          [] p = 4 -> ShaderPass(<<14>>, <<>>, FALSE, TRUE, TRUE, TRUE)
          [] p = 5 -> Unused]

\* items of every kind loaded and removed from the front, frames rendered
\* normally and for debugging, with and without multisampling
InitSkip ==
    /\ InitEngine
    /\ InitPreprocessorIdle
    /\ passes \in {ProjectKinds, ProjectSkipped}
    /\ pipeline = <<>>
    /\ msaa \in BOOLEAN

NextSkip ==
    \/ LoadProject
    \/ RemoveItem(0)
    \/ \E isDebug \in BOOLEAN : Render(isDebug)

SpecSkip == InitSkip /\ [][NextSkip]_vars

\* a project loaded once, then items removed and moved while frames are
\* rendered and time passes.  The clock of m_cacheTimer runs on, and the main
\* loop renders frame after frame for as long as the process lives: a Render
\* is possible in every state that has not crashed, so weak fairness of Render
\* is that either the process has crashed or frames are rendered again and
\* again
InitSettle == \E project \in {ProjectDebug, ProjectCompute} : InitWith(project)

NextSettle ==
    \/ lastOp = "init" /\ LoadProject
    \/ \E k \in 0..(MaxLen - 1) : RemoveItem(k)
    \/ \E k \in 0..(MaxLen - 1) : MoveItemDown(k)
    \/ Tick
    \/ Render(FALSE)

RenderedForever == []<>crashed \/ []<><<Render(FALSE)>>_vars

SpecSettle == InitSettle /\ [][NextSettle]_vars /\ WF_vars(Tick) /\ RenderedForever

\* a shader pass beside one whose vertex and pixel shader paths are empty
ProjectNoPath ==
    [p \in PassIds |->
        CASE p = 1 -> ShaderPass(<<11>>, <<m_rtColor>>, FALSE, TRUE, TRUE, TRUE)
          [] p = 2 -> ShaderPass(<<16>>, <<2>>, FALSE, FALSE, TRUE, TRUE)
          [] OTHER -> Unused]

\* passes added and removed one by one, frames rendered normally and for
\* debugging
InitNoPath == InitWith(ProjectNoPath)

NextNoPath ==
    \/ \E id \in PassIds : AddItem(id)
    \/ \E k \in 0..(MaxLen - 1) : RemoveItem(k)
    \/ Tick
    \/ \E isDebug \in BOOLEAN : Render(isDebug)

SpecNoPath == InitNoPath /\ [][NextNoPath]_vars

(***************************************************************************)
(* Properties of the cache synchroniser.                                   *)
(***************************************************************************)
RenderOps == {"Render", "RenderDebug"}

\* the outcomes of the Render call that a step is, if it is one that returns
Returned ==
    IF lastOp' \in RenderOps /\ ~crashed'
    THEN {c \in RenderOutcomes(lastOp' = "RenderDebug") :
            RenderAs(lastOp' = "RenderDebug", c)}
    ELSE {}

\* the step is a debug-mode Render
DebugStep == lastOp' = "RenderDebug"

Permutation(a, b) == Len(a) = Len(b) /\ Range(a) = Range(b)

\* the handles cached for identity id: program, debug program, shader objects
HandlesOf(c, id) ==
    LET k == CHOOSE k \in 1..Len(c.m_items) : c.m_items[k] = id
    IN  <<c.m_shaders[k], c.m_debugShaders[k], c.m_shaderSources[k]>>

\* C1: after a Render whose m_cache was not skipped by the debounce, the
\* shadow list m_items equals the pipeline list: same identities, same order,
\* same length.
C1_ShadowListEqualsPipeline ==
    (lastOp \in RenderOps /\ lastCache /\ ~crashed) => m_items = pipeline

\* C2: when the shadow list is a permutation of the pipeline list and m_cache is
\* not debounced, the shadow list takes the order of the pipeline list, every
\* identity keeps its program, debug program and shader objects, and nothing is
\* compiled or linked.
C2_ReorderKeepsHandles ==
    [][\A c \in Returned :
          (c.ops.ran /\ NoDup(pipeline) /\ Permutation(m_items, pipeline))
          => /\ c.m_items = pipeline
             /\ \A id \in Range(pipeline) : HandlesOf(c, id) = HandlesOf(Engine, id)
             /\ c.ops.compiles = 0
             /\ c.ops.links = 0]_vars

Draws(c) == {k \in 1..Len(c.events) : c.events[k].k = "draw"}

\* C4: GetPipelineItemByID applied to the ID a debug-mode Render assigned to
\* the draw of a Geometry or Model item returns the pass and the item of that
\* draw, for every pipeline.
C4_DecodeInvertsIDAssignment ==
    [][\A c \in Returned :
          DebugStep
          => \A k \in Draws(c) :
                GetPipelineItemByID(c, c.events[k].id)
                    = <<c.events[k].pass, c.events[k].item>>]_vars

\* C6: a Render that returns advances the frame index by exactly 1 when the
\* engine is not paused and leaves it alone when it is paused, whatever the
\* pipeline and the debug flag.
C6_FrameIndex ==
    [][(lastOp' \in RenderOps /\ ~crashed')
          => frameIndex' = IF m_paused THEN frameIndex
                           ELSE (frameIndex + 1) % FrameWrap]_vars

\* frames were rendered while running, and a debug frame has just been
\* rendered while paused, with two passes cached
C6_Witness ==
    /\ lastOp = "RenderDebug"
    /\ ~crashed
    /\ m_paused
    /\ frameIndex = 2
    /\ Len(m_items) = 2

\* the passes of the shadow list whose compilation failed
FailedPasses(c) ==
    {it \in Range(c.m_items) :
        passes[it].Type \in {"ShaderPass", "ComputePass"}
        /\ passes[it].HasPath /\ ~passes[it].Compiles}

\* the passes of the shadow list a frame has to execute
Executable(c, isDebug) ==
    {it \in Range(c.m_items) \ FailedPasses(c) :
        \/ /\ passes[it].Type = "ShaderPass"
           /\ passes[it].HasPath /\ passes[it].Active
           /\ Len(passes[it].Items) > 0 /\ passes[it].RTCount > 0
           /\ ~(isDebug /\ passes[it].GSUsed)
        \/ /\ passes[it].Type = "ComputePass"
           /\ passes[it].HasPath /\ ~isDebug /\ ~c.m_paused}

\* the events that execute a pass, and the passes they execute, in frame order
Executions(c) ==
    SelectSeq(c.events, LAMBDA e : e.k \in {"useProgram", "dispatch"})

PositionIn(s, x) == CHOOSE k \in 1..Len(s) : s[k] = x

\* C10: a shader or compute pass whose compilation failed stays in the shadow
\* list with program 0, and a Render (normal or debug) that returns issues no
\* draw or dispatch for it, while it executes every other pass, in shadow-list
\* order.
C10_FailedPassKeepsSlot ==
    [][\A c \in Returned :
             LET ex == Executions(c) IN
             /\ FailedPasses(Engine) \cap Range(pipeline) \subseteq FailedPasses(c)
             /\ \A k \in 1..Len(c.m_items) :
                   c.m_items[k] \in FailedPasses(c) => c.m_shaders[k] = 0
             /\ \A k \in 1..Len(c.events) :
                   c.events[k].k \in {"draw", "dispatch", "useProgram", "bindFBO"}
                   => c.events[k].pass \notin FailedPasses(c)
             /\ {ex[k].pass : k \in 1..Len(ex)} = Executable(c, DebugStep)
             /\ \A a, b \in 1..Len(ex) :
                   a < b => PositionIn(c.m_items, ex[a].pass)
                              < PositionIn(c.m_items, ex[b].pass)]_vars

\* a frame has just been rendered with a failed pass cached in front of a pass
\* that compiled
C10_Witness ==
    /\ lastOp \in RenderOps
    /\ ~crashed
    /\ Len(m_items) = 2
    /\ m_items = pipeline
    /\ m_items[1] \in FailedPasses(Engine)
    /\ m_shaders[1] = 0
    /\ m_shaders[2] # 0

(***************************************************************************)
(* Properties of FlushCache.                                               *)
(***************************************************************************)
\* the shader passes a frame binds a framebuffer for
Bound(c) == {c.events[k].pass : k \in {k \in 1..Len(c.events) : c.events[k].k = "bindFBO"}}

Rebuilt(c) == {c.events[k].pass : k \in {k \in 1..Len(c.events) : c.events[k].k = "fbo"}}

\* C7: after FlushCache no program, debug program, shader object or
\* framebuffer made earlier is live or held in an engine array, and the next
\* Render re-adds and recompiles every item of the pipeline list and rebuilds
\* the framebuffer of every shader pass it renders.
C7_FlushLeavesNothing ==
    [][/\ lastOp' = "FlushCache"
          => /\ live' = {}
             /\ m_items' = <<>> /\ m_shaders' = <<>> /\ m_shaderSources' = <<>>
             /\ \A k \in 1..Len(m_debugShaders') : m_debugShaders'[k] = 0
             /\ \A p \in PassIds : m_fbos'[p] = <<>> /\ m_fboMS'[p] = 0
       /\ \A c \in Returned :
             lastOp = "FlushCache"
             => /\ c.m_items = pipeline
                /\ c.ops.inserts = Len(pipeline)
                /\ c.ops.compiles = Len(pipeline)
                /\ Bound(c) \subseteq Rebuilt(c)]_vars

(***************************************************************************)
(* Properties of picking.                                                  *)
(***************************************************************************)
RECURSIVE SeqMin(_, _)
SeqMin(s, k) == IF k > Len(s) THEN Infinity ELSE Min(s[k], SeqMin(s, k + 1))

\* the distance at which the ray of the pending pick hits an item: for a
\* model, the nearest of its triangles
HitDistance(item) ==
    IF children[item].Type = "Model"
    THEN IF pickRay[item].dist < Infinity THEN SeqMin(pickRay[item].tris, 1) ELSE Infinity
    ELSE pickRay[item].dist

\* C5: a Render that resolves a single pick (multiPick = false) whose ray hits
\* at least one of the items tested leaves exactly one item in m_pick, and
\* that item is hit at the minimum distance over all items tested, whatever
\* the order of the items and whatever m_pick held before.
C5_PickTakesClosest ==
    [][\A c \in Returned :
          (m_pickAwaiting /\ ~m_wasMultiPick
             /\ \E item \in c.tested : HitDistance(item) < Infinity)
          => /\ Len(m_pick') = 1
             /\ m_pick'[1] \in c.tested
             /\ \A item \in c.tested : HitDistance(m_pick'[1]) <= HitDistance(item)]_vars

(***************************************************************************)
(* Properties of the preprocessor.                                         *)
(***************************************************************************)
\* the positions at which the text holds "#version"
VersionDirectives(s) ==
    {k \in 0..(Len(s) - Len(VersionDirective)) :
        SubSeq(s, k + 1, k + Len(VersionDirective)) = VersionDirective}

\* the start of the line after the line of the first #version directive
AfterVersionLine(s) ==
    LET first == CHOOSE k \in VersionDirectives(s) : \A h \in VersionDirectives(s) : k <= h
    IN  find_first_of(s, {"\n"}, first) + 1

\* C9: for a text that holds a #version directive followed by a newline,
\* m_applyMacros yields the text with one "#define NAME VALUE" line per active
\* macro, in list order, inserted at the start of the line after the line of
\* the first #version directive, and nothing else changed.
C9_MacrosAfterVersionLine ==
    (lastOp = "m_applyMacros" /\ VersionDirectives(src) # {})
    => macroOut = InsertText(src, AfterVersionLine(src), StrMacro(macros, 1))

\* A includes B, B includes A, nothing else is included, one include path
CycleAB ==
    /\ paths = <<".">>
    /\ \E a \in 1..Len(files["A"]) :
          files["A"][a] = "B"
          /\ \A k \in 1..Len(files["A"]) : k # a => files["A"][k] \in {"txt", "emb"}
    /\ \E b \in 1..Len(files["B"]) :
          files["B"][b] = "A"
          /\ \A k \in 1..Len(files["B"]) : k # b => files["B"][k] \in {"txt", "emb"}

\* C8: m_includeCheck returns, whatever the files include, and when A includes
\* B and B includes A with one include path, it has added exactly one
\* "Recursive #include detected" message by then.
C8_IncludeTerminates ==
    <>(incDone /\ (CycleAB => incMsgs = 1))

\* m_includeCheck has returned from the expansion of A, which includes B, which
\* includes A
C8_Witness ==
    /\ lastOp = "m_includeCheck"
    /\ incDone
    /\ CycleAB
    /\ incMsgs = 1

\* the Geometry and Model items a frame drew
DrawnItems(c) == {c.events[k].item : k \in Draws(c)}

\* the items m_pickItem leaves untested: rectangles and screen quads
NeverTested ==
    {item \in ChildIds :
        children[item].Type = "Geometry"
        /\ children[item].Geo \in {"Rectangle", "ScreenQuadNDC"}}

\* C11: a Render that starts with a pick awaiting resolves it after the
\* traversal of the passes: every item it drew was tested against the ray, the
\* callback (when there is one) is invoked exactly once, with the last item of
\* the final pick list or with no item, the pick list is empty when no tested
\* item was hit, and the awaiting flag is false afterwards.  A Render that
\* starts with no pick awaiting tests nothing, invokes no callback and leaves
\* the pick list alone.
C11_PickFinalizedAtEndOfRender ==
    [][\A c \in Returned :
          IF m_pickAwaiting
          THEN /\ ~m_pickAwaiting'
               /\ DrawnItems(c) \ NeverTested \subseteq c.tested
               /\ c.callbacks =
                    IF m_pickHandle
                    THEN <<IF m_pick' = <<>> THEN NoItem ELSE m_pick'[Len(m_pick')]>>
                    ELSE <<>>
               /\ (\A item \in c.tested : HitDistance(item) = Infinity) => m_pick' = <<>>
               /\ (\E item \in c.tested : HitDistance(item) < Infinity) => m_pick' # <<>>
          ELSE /\ ~m_pickAwaiting'
               /\ c.tested = {}
               /\ c.callbacks = <<>>
               /\ m_pick' = m_pick]_vars

\* a frame has just resolved a pick whose ray hit an item, with a callback
\* pending, after an item had been selected by hand
C11_Witness ==
    /\ lastOp \in RenderOps
    /\ ~crashed
    /\ ~m_pickAwaiting
    /\ m_pickHandle
    /\ m_pickDist < Infinity
    /\ Len(m_pick) = 2

(***************************************************************************)
(* Properties of the order of execution.                                   *)
(***************************************************************************)
\* the child items a frame executed for a pass, in frame order
ItemsExecuted(c, pass) ==
    LET evs == SelectSeq(c.events,
                         LAMBDA e : e.pass = pass /\ e.k \in {"draw", "state", "pluginDraw"})
    IN  [k \in 1..Len(evs) |-> evs[k].item]

\* C12: a Render that returns executes passes of the pipeline list as it is at
\* the time of that Render, in the order of that list, and executes the child
\* items of each shader pass it draws in their declared order.
C12_PassesInPipelineOrder ==
    [][\A c \in Returned :
          LET ex == Executions(c) IN
          /\ \A k \in 1..Len(ex) : Contains(pipeline, ex[k].pass)
          /\ \A a, b \in 1..Len(ex) :
                (a < b /\ Contains(pipeline, ex[a].pass) /\ Contains(pipeline, ex[b].pass))
                => PositionIn(pipeline, ex[a].pass) < PositionIn(pipeline, ex[b].pass)
          /\ \A k \in 1..Len(ex) :
                ex[k].k = "useProgram"
                => ItemsExecuted(c, ex[k].pass) = passes[ex[k].pass].Items]_vars

(***************************************************************************)
(* Properties of Pause.                                                    *)
(***************************************************************************)
\* the passes a frame executed: drawn, dispatched, audio rendered, plugin run
PassesExecuted(c) ==
    {c.events[k].pass :
        k \in {k \in 1..Len(c.events) :
                 c.events[k].k \in {"useProgram", "dispatch", "audio", "plugin"}}}

PassesDispatched(c) ==
    {c.events[k].pass : k \in {k \in 1..Len(c.events) : c.events[k].k = "dispatch"}}

\* what the frame does without its dispatches
WithoutDispatch(c) == SelectSeq(c.events, LAMBDA e : e.k # "dispatch")

\* the same Render call from the same state with m_paused the other way round
OtherPauseState ==
    RenderBody([Engine EXCEPT !.m_paused = ~m_paused], pipeline, FALSE, TRUE, <<>>, TRUE)

\* the step is a non-debug Render that returns and reads inside its vectors
NormalStep(c) == lastOp' = "Render" /\ ~c.oob /\ ~c.ops.oob

PixelPicked ==
    IF lastOp' = "DebugPixelPick"
    THEN {c \in UNION {DebugPixelPickOutcomes(ids) : ids \in PixelIDs} :
            DebugAs("DebugPixelPick", c)}
    ELSE {}

\* the programs a frame made current
ProgramsUsed(frame) ==
    {frame.events[k].item : k \in {l \in 1..Len(frame.events) : frame.events[l].k = "useProgram"}}

\* C14: a DebugPixelPick renders exactly two frames, a debug frame and then a
\* normal frame, so the last frame is never a debug frame and uses no debug
\* program; the pixel list holds only records of this call, read back after
\* the debug frame, at most one per render target.
C14_PixelPickRendersDebugThenNormal ==
    [][\A c \in PixelPicked :
          /\ Len(c.frames) = 2
          /\ c.frames[1].isDebug
          /\ ~c.frames[2].isDebug
          /\ ProgramsUsed(c.frames[2]) \subseteq Range(m_shaders')
          /\ ProgramsUsed(c.frames[1]) \cap Range(m_shaders') = {}
          /\ frameIndex' = IF m_paused THEN frameIndex ELSE (frameIndex + 2) % FrameWrap
          /\ \A k \in 1..Len(m_pixels') :
                /\ m_pixels'[k].Owner \in Range(m_items')
                /\ \A l \in 1..Len(m_pixels') :
                      m_pixels'[l].RenderTexture = m_pixels'[k].RenderTexture => l = k]_vars

PickOps == {"DebugVertexPick", "DebugInstancePick"}

\* the (pass, item, outcome) triples of the vertex or instance pick that a step
\* is, if it returns
ItemPicked ==
    IF lastOp' \in PickOps /\ ~crashed'
    THEN {t \in UNION {{<<pass, item, c>> : c \in DebugItemPickOutcomes(pass, item)} :
                         pass \in ShaderPasses \cap Range(pipeline), item \in ChildIds} :
            DebugAs(lastOp', t[3])}
    ELSE {}

\* the items the custom program drew
CustomDraws(c) ==
    {<<c.custom[k].pass, c.custom[k].item>> :
       k \in {l \in 1..Len(c.custom) : c.custom[l].k \in {"draw", "pluginDraw"}}}

\* the program cached for a pass, 0 when the pass is not cached
NormalProgram(pass) ==
    IF Contains(m_items, pass)
    THEN m_shaders[CHOOSE k \in 1..Len(m_items) : m_items[k] = pass]
    ELSE 0

\* what C15 says of one pick, but for the uniform information
PickDrawsTargetOnly(t) ==
    /\ CustomDraws(t[3]) \subseteq {<<t[1], t[2]>>}
    /\ (Contains(passes[t[1]].Items, t[2]) /\ children[t[2]].Type \in {"Geometry", "Model"})
          => CustomDraws(t[3]) = {<<t[1], t[2]>>}
    /\ \A k \in 1..Len(t[3].custom) : t[3].custom[k].pass = t[1]
    /\ Len(t[3].frames) = 1
    /\ ~t[3].frames[1].isDebug
    /\ {customVS, customProgram} \cap live' = {}

RecompileOps == {"Recompile", "RecompileFromSource"}

\* the (name, texts, outcome) triples of the recompilation that a step is, if
\* it returns
Recompiled ==
    IF lastOp' \in RecompileOps /\ ~crashed'
    THEN {t \in UNION {{<<name, srcs, c>> :
                          c \in RecompileOutcomes(name, srcs, lastOp' = "RecompileFromSource")} :
                         name \in Range(pipeline), srcs \in GivenSources} :
            /\ lastOp' = "Recompile" => t[2] \in FileSources
            /\ DebugAs(lastOp', t[3])}
    ELSE {}

\* the pass is a shader or compute pass that is in the cache
CachedProgramPass(name) ==
    Contains(m_items, name) /\ passes[name].Type \in {"ShaderPass", "ComputePass"}

\* a stage that the call compiled did not compile
StageFailed(name, srcs) ==
    IF passes[name].Type = "ComputePass" THEN srcs.VS = "bad"
    ELSE LET st == IF lastOp' = "RecompileFromSource" THEN StagesOfSource(passes[name], srcs)
                   ELSE StagesOfRecompile(passes[name], srcs)
         IN  \E f \in {"VS", "PS", "GS"} : st[f] /\ srcs[f] = "bad"

\* how often a GL name was deleted
TimesFreed(c, h) == Cardinality({k \in 1..Len(c.freed) : c.freed[k] = h})

\* what C16 says of a recompilation whose failure is failed
RecompileReplacesProgram(t, failed) ==
    CachedProgramPass(t[1]) =>
       /\ NormalProgram(t[1]) # 0 =>
             /\ TimesFreed(t[3], NormalProgram(t[1])) = 1
             /\ NormalProgram(t[1]) \notin live'
             /\ NormalProgram(t[1])' # NormalProgram(t[1])
       /\ failed => NormalProgram(t[1])' = 0 /\ m_msgs'[t[1]] >= 1
       /\ ~failed =>
             /\ NormalProgram(t[1])' # 0
             /\ NormalProgram(t[1])' \in live' \ live
             /\ uniformInfo'[t[1]] = NormalProgram(t[1])'

\* C16: after Recompile or RecompileFromSource on a cached shader or compute
\* pass the previous program has been deleted exactly once; the handle is 0,
\* with an error message for the pass, if a stage failed to compile, and a
\* newly created program otherwise.
C16_RecompileReplacesProgram ==
    [][\A t \in Recompiled : RecompileReplacesProgram(t, StageFailed(t[1], t[2]))]_vars

\* C16 as amended: RecompileFromSource on a compute pass with an empty text
\* counts as a failure.
C16_RecompileEmptyComputeFails ==
    [][\A t \in Recompiled :
          RecompileReplacesProgram(t, \/ StageFailed(t[1], t[2])
                                      \/ /\ passes[t[1]].Type = "ComputePass"
                                         /\ lastOp' = "RecompileFromSource"
                                         /\ t[2].VS = "")]_vars

\* a recompilation has failed for a pass that had a program: the program is
\* gone, the handle is 0 and the error is on the message stack
C16_Witness ==
    /\ lastOp \in RecompileOps
    /\ ~crashed
    /\ \E k \in 1..Len(m_items) :
          /\ m_shaders[k] = 0
          /\ compileGen[m_items[k]] = 2
          /\ m_msgs[m_items[k]] = 1
          /\ ProgramName(m_items[k], 1) \notin live
          /\ passes[m_items[k]].Compiles

(***************************************************************************)
(* Properties of the framebuffers.                                         *)
(***************************************************************************)
\* the events of a frame that bind a framebuffer to draw into a pass
Binds(c) == {k \in 1..Len(c.events) : c.events[k].k = "bindFBO"}

\* RenderTextures[0 .. RTCount-1] of a pass
CurrentRTs(pass) == SubSeq(passes[pass].RenderTextures, 1, passes[pass].RTCount)

\* C17: whenever a Render draws into a shader pass, the framebuffer it binds
\* (the multisampled one under MSAA) is the live framebuffer of the pass, and
\* the colour attachments it was built with are the pass's current
\* RenderTextures[0 .. RTCount-1].
C17_AttachmentsMirrorRenderTextures ==
    [][\A c \in Returned :
          \A k \in Binds(c) :
             /\ c.events[k].item = IF msaa THEN c.m_fboMS[c.events[k].pass]
                                   ELSE c.passFBO[c.events[k].pass]
             /\ c.events[k].item \in c.live
             /\ c.fboColors[c.events[k].pass] = CurrentRTs(c.events[k].pass)]_vars

\* a frame has drawn into a pass whose render targets were edited after its
\* framebuffer had been built once: the framebuffer is in its second build
C17_Witness ==
    /\ lastOp = "Render"
    /\ ~crashed
    /\ \E p \in PassIds :
          /\ Contains(m_items, p)
          /\ fboGen[p] = 2
          /\ passes[p].RTCount = 2
          /\ fboColors[p] = CurrentRTs(p)
          /\ passes[p] # ProjectFBO[p]

(***************************************************************************)
(* Properties of the removal and addition phases of m_cache.               *)
(***************************************************************************)
\* C18: after a Render whose m_cache got past the debounce, no identity that
\* is absent from the pipeline list is left in the shadow list.
C18_AbsentEntriesErased ==
    [][\A c \in Returned : c.ops.ran => Range(c.m_items) \subseteq Range(pipeline)]_vars

\* the GL names a shadow entry of the state owns: program, debug program and,
\* for a shader pass, the two framebuffers
OwnedHandles(k) ==
    ({m_shaders[k]}
       \cup (IF k <= Len(m_debugShaders) THEN {m_debugShaders[k]} ELSE {})
       \cup (IF passes[m_items[k]].Type = "ShaderPass"
             THEN {passFBO[m_items[k]], m_fboMS[m_items[k]]} ELSE {})) \ {0}

\* C19: when a Render's reconciliation has erased a shadow entry, none of the
\* GL names the entry owned is live any more.
C19_ErasedEntryReleasesHandles ==
    [][\A c \in Returned :
          \A k \in 1..Len(m_items) :
             ~Contains(c.m_items, m_items[k]) => OwnedHandles(k) \cap c.live = {}]_vars

\* C20: after a Render whose m_cache got past the debounce, every pipeline
\* item that was absent from the shadow list has a shadow entry, at its index
\* in the pipeline list when nothing was erased or moved, with a program handle
\* and a debug-program handle, both 0 when the item has no source path.
C20_NewEntryForEveryItem ==
    [][\A c \in Returned :
          c.ops.ran =>
             \A j \in 1..Len(pipeline) :
                ~Contains(m_items, pipeline[j]) =>
                   \E k \in 1..Len(c.m_items) :
                      /\ c.m_items[k] = pipeline[j]
                      /\ (c.ops.erases = 0 /\ c.ops.moves = 0) => k = j
                      /\ k <= Len(c.m_shaders)
                      /\ k <= Len(c.m_debugShaders)
                      /\ ~passes[pipeline[j]].HasPath
                            => c.m_shaders[k] = 0 /\ c.m_debugShaders[k] = 0]_vars

\* the positions in the frame's events at which a shader pass was bound: one for
\* every rendered shader pass, in order
BindPositions(c) == {k \in 1..Len(c.events) : c.events[k].k = "bindFBO"}

\* the depth/stencil buffers of the shader passes rendered in the frame
DepthsUsed(c) == {c.passDepth[c.events[k].pass] : k \in BindPositions(c)}

\* the number of times the frame cleared depth/stencil buffer d
DepthClears(c, d) ==
    Cardinality({k \in 1..Len(c.events) :
                    c.events[k].k = "clearDepth" /\ c.events[k].item = d})

\* C21: within one Render every depth/stencil buffer used by a rendered shader
\* pass is cleared exactly once, whatever the order of the passes.
C21_DepthClearedOnce ==
    [][\A c \in Returned : \A d \in DepthsUsed(c) : DepthClears(c, d) = 1]_vars

\* the two halves of the statement: no depth buffer is cleared twice in a frame ...
DepthClearedAtMostOnce ==
    [][\A c \in Returned : \A d \in DepthsUsed(c) : DepthClears(c, d) <= 1]_vars

\* ... and the window depth buffer, when used, is cleared
WindowDepthCleared ==
    [][\A c \in Returned : m_rtDepth \in DepthsUsed(c) => DepthClears(c, m_rtDepth) >= 1]_vars

\* the positions in the frame's events at which colour target rt was cleared
ColorClears(c, rt) ==
    {k \in 1..Len(c.events) : c.events[k].k = "clearColor" /\ c.events[k].item = rt}

\* some shader pass rendered in the frame has rt among its render targets
BoundInFrame(c, rt) ==
    \E k \in BindPositions(c) : Contains(passes[c.events[k].pass].RenderTextures, rt)

\* C22: within one Render the window colour target is cleared exactly once if
\* a rendered shader pass binds it and never otherwise; the clear uses the
\* configured clear colour in a normal render and transparent black in a debug
\* render.
C22_WindowClearedOnce ==
    [][\A c \in Returned :
          /\ Cardinality(ColorClears(c, m_rtColor))
                = IF BoundInFrame(c, m_rtColor) THEN 1 ELSE 0
          /\ \A k \in ColorClears(c, m_rtColor) :
                c.events[k].id = IF DebugStep THEN 0 ELSE 1]_vars

\* a debug frame rendered both passes that draw to the window
C22_Witness ==
    /\ lastOp = "RenderDebug"
    /\ ~crashed
    /\ m_items = <<1, 3, 4, 2>>
    /\ \A k \in 1..4 : m_shaders[k] # 0 /\ passFBO[m_items[k]] # 0

\* the passes rendered in the frame, in order
RenderedPasses(c) ==
    [j \in 1..Cardinality(BindPositions(c)) |->
        c.events[CHOOSE k \in BindPositions(c) :
                    Cardinality({i \in BindPositions(c) : i <= k}) = j].pass]

\* the render targets a pass binds
TargetsOf(pass) == Range(passes[pass].RenderTextures) \ {0}

\* the render textures cleared at the start of pass
ClearedBy(c, pass) ==
    {c.events[k].item : k \in {k \in 1..Len(c.events) :
        c.events[k].k = "clearColor" /\ c.events[k].pass = pass}} \ {m_rtColor}

\* C23: at the start of each rendered shader pass a bound render texture is
\* cleared if and only if its clear flag is set and the immediately preceding
\* rendered shader pass of the frame did not bind it.
C23_ClearedUnlessBoundByPreviousPass ==
    [][\A c \in Returned :
          \A j \in 1..Len(RenderedPasses(c)) :
             \A rt \in TargetsOf(RenderedPasses(c)[j]) \ {m_rtColor} :
                rt \in ClearedBy(c, RenderedPasses(c)[j])
                <=> /\ RTClear(rt)
                    /\ \/ j = 1
                       \/ rt \notin TargetsOf(RenderedPasses(c)[j - 1])]_vars

(***************************************************************************)
(* Properties of what a frame leaves out.                                  *)
(***************************************************************************)
\* the kinds of the events of a frame that name item it
KindsFor(c, it) == {c.events[k].k : k \in {k \in 1..Len(c.events) : c.events[k].pass = it}}

\* the names of the multisampled framebuffers
MSNames == {FBOMSName(p, n) : p \in PassIds, n \in 0..(MaxGen + 1)}

\* a shader pass that line 172 skips in every frame
AlwaysSkipped(p) ==
    /\ passes[p].Type = "ShaderPass"
    /\ ~passes[p].Active \/ Len(passes[p].Items) <= 0 \/ passes[p].RTCount = 0

\* C24: a debug-mode Render dispatches no compute pass, renders no audio pass,
\* executes no top-level plugin item, draws no shader pass that uses the
\* geometry stage and never binds a multisampled framebuffer; in any Render a
\* shader pass that is inactive, has no child items or has RTCount 0 causes no
\* clear, no draw and no framebuffer rebuild.
C24_SkippedInDebugAndWhenEmpty ==
    [][\A c \in Returned :
          /\ DebugStep =>
                \A k \in 1..Len(c.events) :
                   /\ c.events[k].k \notin {"dispatch", "audio", "plugin", "resolve"}
                   /\ ~passes[c.events[k].pass].GSUsed
                   /\ c.events[k].k = "bindFBO" => c.events[k].item \notin MSNames
          /\ \A p \in PassIds :
                AlwaysSkipped(p) =>
                   /\ KindsFor(c, p) = {}
                   /\ c.passFBO[p] = passFBO[p]
                   /\ c.m_fboMS[p] = m_fboMS[p]]_vars

\* a debug frame under multisampling, of a pipeline with an item of every kind
\* whose shader passes were drawn in an earlier normal frame
C24_Witness ==
    /\ lastOp = "RenderDebug"
    /\ ~crashed
    /\ msaa
    /\ m_items = <<1, 2, 3, 4, 5>>
    /\ passes = ProjectKinds
    /\ passFBO[1] # 0 /\ passFBO[2] # 0
    /\ m_shaders[1] # 0 /\ m_shaders[2] # 0 /\ m_shaders[3] # 0

(***************************************************************************)
(* Properties of the text m_includeCheck returns.                          *)
(***************************************************************************)
\* the outermost m_includeCheck has returned from the expansion of file A
Expanded == lastOp = "m_includeCheck" /\ incDone

\* the text the outermost activation leaves in src
Output == incFrames[1].src

\* every #include met was replaced by a file: no file names a missing one and
\* no candidate was found on the include stack
AllResolved ==
    /\ \A n \in FileNames : Missing \notin Range(files[n])
    /\ incMsgs = 0

\* C25: after m_includeCheck on a source whose includes all resolve, the
\* line-bias counter has grown by the line count of every file spliced in,
\* nested ones included: it equals the number of lines added to the source.
C25_LineBiasSumsSplicedLines ==
    (Expanded /\ AllResolved) => lineBias = Len(Output) - Len(files["A"])

\* the candidates of an #include of name that exist, in the order of the paths
Candidates(name) ==
    SelectSeq([k \in 1..Len(paths) |-> IPath(paths[k], name)], FileExists)

\* the text the statement describes for a text and an include stack: a line
\* that is an #include becomes the expansion of its first existing candidate
\* followed by the line left empty, or the empty line alone when no candidate
\* exists or the candidate is on the stack; other lines stay
RECURSIVE Expansion(_, _)
Expansion(text, stack) ==
    IF text = <<>> THEN <<>>
    ELSE IF Head(text) \notin IncludeLines
    THEN <<Head(text)>> \o Expansion(Tail(text), stack)
    ELSE IF Candidates(Head(text)) = <<>> \/ InStack(stack, Candidates(Head(text))[1])
    THEN <<"">> \o Expansion(Tail(text), stack)
    ELSE Expansion(files[Head(text)], Append(stack, Candidates(Head(text))[1]))
         \o <<"">>
         \o Expansion(Tail(text), Append(stack, Candidates(Head(text))[1]))

\* C26: after m_includeCheck returns, the output holds no #include that begins
\* a line: each was replaced by the expanded text of its first existing
\* candidate, or removed with nothing spliced when no candidate exists or the
\* candidate is on the include stack; an #include that does not begin a line
\* is left untouched.
C26_DirectivesExpandedOrRemoved ==
    Expanded =>
       /\ \A k \in 1..Len(Output) : Output[k] \notin IncludeLines
       /\ Output = Expansion(files["A"], <<>>)

\* the candidates of an #include of name that exist and are not on the stack
Spliceable(name, stack) ==
    SelectSeq(Candidates(name), LAMBDA ipath : ~InStack(stack, ipath))

\* what the loop over the paths computes: the expansion of the first candidate
\* that exists and is not on the stack
RECURSIVE ExpansionOfFirstFree(_, _)
ExpansionOfFirstFree(text, stack) ==
    IF text = <<>> THEN <<>>
    ELSE IF Head(text) \notin IncludeLines
    THEN <<Head(text)>> \o ExpansionOfFirstFree(Tail(text), stack)
    ELSE IF Spliceable(Head(text), stack) = <<>>
    THEN <<"">> \o ExpansionOfFirstFree(Tail(text), stack)
    ELSE ExpansionOfFirstFree(files[Head(text)],
                              Append(stack, Spliceable(Head(text), stack)[1]))
         \o <<"">>
         \o ExpansionOfFirstFree(Tail(text),
                                 Append(stack, Spliceable(Head(text), stack)[1]))

\* the statement with the candidate taken as the first one that exists and is
\* not on the include stack
FirstFreeCandidateExpanded ==
    Expanded =>
       /\ \A k \in 1..Len(Output) : Output[k] \notin IncludeLines
       /\ Output = ExpansionOfFirstFree(files["A"], <<>>)

(***************************************************************************)
(* Properties of m_updatePassFBO.                                          *)
(***************************************************************************)
\* the shader passes of the cache that line 172 lets through in a normal frame
Updated(c) ==
    {p \in Range(c.m_items) \cap PassIds :
        /\ passes[p].Type = "ShaderPass"
        /\ passes[p].Active /\ Len(passes[p].Items) > 0 /\ passes[p].RTCount > 0}

\* what the statement takes to force a rebuild of pass p in engine state c
MustRebuild(c, p) ==
    \/ \E k \in 1..passes[p].RTCount : passes[p].RenderTextures[k] # c.m_fbos[p][k]
    \/ c.m_fboCount[p] # passes[p].RTCount
    \/ c.m_fbosNeedUpdate

\* r is c with the two framebuffers of pass p destroyed and created anew
Recreated(c, r, p) ==
    /\ r.passFBO[p] \notin {0, c.passFBO[p]}
    /\ r.m_fboMS[p] \notin {0, c.m_fboMS[p]}
    /\ {r.passFBO[p], r.m_fboMS[p]} \subseteq r.live
    /\ c.passFBO[p] # 0 => {c.passFBO[p], c.m_fboMS[p]} \cap r.live = {}

\* r is c with the two framebuffers of pass p as they were
LeftAlone(c, r, p) ==
    /\ r.passFBO[p] = c.passFBO[p]
    /\ r.m_fboMS[p] = c.m_fboMS[p]
    /\ r.live = c.live

\* C27 as stated: m_updatePassFBO destroys and recreates the framebuffer and
\* the multisampled framebuffer of a pass if and only if a target below RTCount
\* differs from the snapshot, the count differs from the snapshot count or the
\* global invalidation flag is set; otherwise both handles are left unchanged;
\* after the call the snapshot equals the current array and count.  Stated of
\* the call on every pass of the cache as Render's m_cache leaves it.
C27_SnapshotEqualsArray ==
    \A c \in {m_cache(Engine, pipeline, TRUE, <<>>)} :
       ~c.crashed =>
          \A p \in Updated(c) :
             \A r \in {m_updatePassFBO(c, p)} :
                ~r.crashed =>
                   /\ IF MustRebuild(c, p) THEN Recreated(c, r, p) ELSE LeftAlone(c, r, p)
                   /\ r.m_fboCount[p] = passes[p].RTCount
                   /\ r.m_fbos[p] = passes[p].RenderTextures

\* C27, amended: as above, but after the call the snapshot equals the current
\* array at the indices below RTCount, and the count; the entries of the
\* snapshot from RTCount on are left as they were.
C27_RebuildIffChanged ==
    \A c \in {m_cache(Engine, pipeline, TRUE, <<>>)} :
       ~c.crashed =>
          \A p \in Updated(c) :
             \A r \in {m_updatePassFBO(c, p)} :
                ~r.crashed =>
                   /\ IF MustRebuild(c, p) THEN Recreated(c, r, p) ELSE LeftAlone(c, r, p)
                   /\ r.m_fboCount[p] = passes[p].RTCount
                   /\ \A k \in 1..Len(r.m_fbos[p]) :
                         r.m_fbos[p][k] = IF k <= passes[p].RTCount
                                          THEN passes[p].RenderTextures[k]
                                          ELSE c.m_fbos[p][k]

\* a frame drew two passes: one whose framebuffers were built once and kept,
\* and one whose render targets were edited and whose framebuffers were then
\* destroyed and built a second time; the snapshots are those of the targets
C27_Witness ==
    /\ lastOp = "Render"
    /\ ~crashed
    /\ m_items = <<1, 2>>
    /\ fboGen[1] = 1 /\ fboGen[2] = 2
    /\ passes[2].RTCount = 1
    /\ m_fboCount[2] = 1 /\ m_fbos[2][1] = passes[2].RenderTextures[1]
    /\ ~m_fbosNeedUpdate

(***************************************************************************)
(* Properties of the resolution of a pick.                                 *)
(***************************************************************************)
\* the least distance at which the ray of the pending pick hits a tested item
Closest(c) ==
    CHOOSE d \in Dists :
       /\ \E item \in c.tested : HitDistance(item) = d
       /\ \A item \in c.tested : d <= HitDistance(item)

\* the position in the frame at which an item was first tested: it is tested
\* right before it is drawn
FirstTested(c, item) ==
    CHOOSE k \in Draws(c) :
       /\ c.events[k].item = item
       /\ \A h \in Draws(c) : c.events[h].item = item => k <= h

\* the ray of the request hit one of the items tested
RayHit(c) == \E item \in c.tested : HitDistance(item) < Infinity

\* the item the frame leaves selected
Selected == m_pick'[Len(m_pick')]

\* a call of m_pickItem that changes the best hit is one on an item hit
\* strictly closer than the closest distance so far
ReplacesOnlyIfCloser ==
    \A item \in ChildIds, multiPick \in BOOLEAN :
       \A r \in {m_pickItem(Engine, item, multiPick)} :
          (r.m_pickDist # m_pickDist \/ r.m_pick # m_pick)
          => HitDistance(item) < m_pickDist

\* C28: during the resolution of one pick an item replaces the best hit only if
\* it is hit strictly closer than the closest distance so far, so among the
\* items hit at the minimum distance the one tested first is the one selected.
C28_FirstOfClosestSelected ==
    [][\A c \in Returned :
          (m_pickAwaiting /\ RayHit(c))
          => /\ m_pick' # <<>>
             /\ Selected \in c.tested
             /\ HitDistance(Selected) = Closest(c)
             /\ \A item \in c.tested :
                   HitDistance(item) = Closest(c)
                   => FirstTested(c, Selected) <= FirstTested(c, item)]_vars

\* the second half alone: when the item selected is one of the closest, it is
\* the first of them in scan order
FirstAmongTies ==
    [][\A c \in Returned :
          (m_pickAwaiting /\ RayHit(c) /\ m_pick' # <<>>
             /\ HitDistance(Selected) = Closest(c))
          => \A item \in c.tested :
                HitDistance(item) = Closest(c)
                => FirstTested(c, Selected) <= FirstTested(c, item)]_vars

\* C29: when a pending pick is finalized, the callback receives no item if and
\* only if the ray of the request hit no item; otherwise it receives the
\* closest item the ray hit, in single-pick and in multi-pick mode and whatever
\* the pick list held before.
C29_CallbackGetsClosest ==
    [][\A c \in Returned :
          (m_pickAwaiting /\ m_pickHandle)
          => /\ Len(c.callbacks) = 1
             /\ c.callbacks[1] = NoItem <=> ~RayHit(c)
             /\ RayHit(c) => /\ c.callbacks[1] \in c.tested
                             /\ HitDistance(c.callbacks[1]) = Closest(c)]_vars

\* the same for rays that hit no model, where the distance recorded for an item
\* is the distance at which it is hit
CallbackGetsClosestGeometry ==
    [][\A c \in Returned :
          (m_pickAwaiting /\ m_pickHandle /\ RayHit(c)
             /\ \A item \in c.tested : children[item].Type = "Model"
                                          => HitDistance(item) = Infinity)
          => /\ Len(c.callbacks) = 1
             /\ c.callbacks[1] \in c.tested
             /\ HitDistance(c.callbacks[1]) = Closest(c)]_vars

\* C30: Pick(item, add) and AddPickedItem(item, multi): with an item and add
\* false the pick list becomes exactly [item]; with add true and the item not
\* in the list the item is appended and the other entries are unchanged; with
\* add true and the item in the list the list is unchanged; with no item the
\* list is cleared; the same call applied twice gives the list of one call.
\* Stated of the call on every pick list the engine reaches.
C30_PickListUpdate ==
    \A item \in ChildIds \cup {NoItem}, add \in BOOLEAN :
       \A r \in {AddPickedItem(m_pick, item, add)} :
          /\ (item # NoItem /\ ~add) => r = <<item>>
          /\ (item # NoItem /\ add /\ ~Contains(m_pick, item)) => r = Append(m_pick, item)
          /\ (item # NoItem /\ add /\ Contains(m_pick, item)) => r = m_pick
          /\ item = NoItem => r = <<>>
          /\ AddPickedItem(r, item, add) = r

\* Pick(item, true) has just appended a second item to the pick list
C30_Witness ==
    /\ lastOp = "PickItem"
    /\ Len(m_pick) = 2
    /\ m_pick[1] # m_pick[2]

(***************************************************************************)
(* Properties of the cached arrays as a whole.                             *)
(***************************************************************************)
\* the pass for which a GL name was made
MadeFor(h) == (h \div 8) \div (MaxGen + 2)

\* the GL names held at index k of the cached arrays
HeldAt(k) ==
    ({m_shaders[k], m_debugShaders[k], m_shaderSources[k].VS, m_shaderSources[k].PS,
      m_shaderSources[k].GS}) \ {0}

\* the four cached arrays have one length
SameLength ==
    /\ Len(m_shaders) = Len(m_items)
    /\ Len(m_debugShaders) = Len(m_items)
    /\ Len(m_shaderSources) = Len(m_items)

\* C31: after every m_cache and every FlushCache the arrays m_items, m_shaders,
\* m_debugShaders and m_shaderSources have the same length and index i of each
\* belongs to the same pipeline item, whatever the item types.
C31_CachedArraysAligned ==
    (lastOp \in RenderOps \cup {"FlushCache"} /\ ~crashed)
    => /\ SameLength
       /\ \A k \in 1..Len(m_items) : \A h \in HeldAt(k) : MadeFor(h) = m_items[k]

\* the compilation in which a GL name was made
MadeIn(h) == (h \div 8) % (MaxGen + 2)

\* C32: for every cached shader pass, after any sequence of reconciliations,
\* Recompile and RecompileFromSource calls, a non-zero program handle implies a
\* non-zero debug-program handle built from the same vertex stage.
C32_DebugProgramFollowsProgram ==
    ~crashed =>
       \A k \in 1..Len(m_items) :
          (passes[m_items[k]].Type = "ShaderPass" /\ m_shaders[k] # 0)
          => /\ k <= Len(m_debugShaders)
             /\ m_debugShaders[k] # 0
             /\ m_debugShaders[k] \in live
             /\ MadeFor(m_debugShaders[k]) = m_items[k]
             /\ MadeIn(m_debugShaders[k]) = MadeIn(m_shaderSources[k].VS)

\* the weaker half: a program implies a debug program that is there
DebugProgramThere ==
    ~crashed =>
       \A k \in 1..Len(m_items) :
          (passes[m_items[k]].Type = "ShaderPass" /\ m_shaders[k] # 0)
          => /\ k <= Len(m_debugShaders)
             /\ m_debugShaders[k] # 0
             /\ m_debugShaders[k] \in live


\* C33: every entry of m_items that the pass loop of a Render goes through is
\* an item of the pipeline list of that Render, whatever edits came before
\* (one item removed and another added within the debounce interval, several
\* adjacent items removed).
C33_TraversedEntriesInPipeline ==
    (lastOp \in RenderOps /\ ~crashed) => Range(m_items) \subseteq Range(pipeline)

\* the same for the Renders whose reconciliation was not skipped
TraversedInPipelineWhenReconciled ==
    (lastOp \in RenderOps /\ lastCache /\ ~crashed) => Range(m_items) \subseteq Range(pipeline)


(***************************************************************************)
(* Properties of the pick list.                                            *)
(***************************************************************************)
\* the items a step adds to the pick list
AddedToPick == Range(m_pick') \ Range(m_pick)

\* C34: the Render that resolves a multi-pick request adds at most one item to
\* the pick list, the closest item the ray hit, and every item selected before
\* is still in the list, whatever the order in which the items hit are scanned.
C34_MultiPickAddsClosestOnly ==
    [][\A c \in Returned :
          (m_pickAwaiting /\ m_wasMultiPick)
          => /\ Range(m_pick) \subseteq Range(m_pick')
             /\ Cardinality(AddedToPick) <= 1
             /\ \A item \in AddedToPick :
                   item \in c.tested /\ HitDistance(item) = Closest(c)]_vars

\* the same for the requests whose ray hit an item
MultiPickHitAddsClosestOnly ==
    [][\A c \in Returned :
          (m_pickAwaiting /\ m_wasMultiPick /\ RayHit(c))
          => /\ Range(m_pick) \subseteq Range(m_pick')
             /\ Cardinality(AddedToPick) <= 1
             /\ \A item \in AddedToPick :
                   item \in c.tested /\ HitDistance(item) = Closest(c)]_vars


\* C35: after any sequence of Pick(item, add) calls, ray-pick requests and
\* Renders, the pick list holds no null entry and no item more than once.
C35_PickListSound ==
    /\ \A k \in 1..Len(m_pick) : m_pick[k] # NoItem
    /\ \A k, h \in 1..Len(m_pick) : m_pick[k] = m_pick[h] => k = h

\* a Render has resolved a multi-pick request on a list that held an item, and
\* the list holds two items now
C35_Witness ==
    /\ lastOp \in RenderOps
    /\ m_wasMultiPick /\ ~m_pickAwaiting
    /\ Len(m_pick) = 2


(***************************************************************************)
(* Properties of the recursion check of m_includeCheck.                    *)
(***************************************************************************)
\* the files being expanded: the top-level file and the file of every
\* activation below the outermost, as the path it was found at
BeingExpanded ==
    {IPath(dir, "A") : dir \in fileDirs["A"]}
    \cup {incFrames[k].includeStack[Len(incFrames[k].includeStack)] : k \in 2..Len(incFrames)}

\* the step is a round of the loop over the include paths that tries a path
TriesPath ==
    /\ ~incDone /\ Len(incFrames) > 0
    /\ incFrames[Len(incFrames)].phase = "paths"
    /\ incFrames[Len(incFrames)].i < Len(paths)
    /\ incFrames' # incFrames

\* the path that round tries
PathTried ==
    IPath(paths[incFrames[Len(incFrames)].i + 1], incFrames[Len(incFrames)].fileName)

\* C36: "Recursive #include detected" is emitted, and the expansion of an
\* include refused, only for a file that is being expanded on the path from the
\* top-level file to the directive; a file included twice by one file, or
\* reached through two branches of an acyclic include graph, is expanded each
\* time and without a diagnostic.
C36_DiagnosticOnlyForCycle ==
    [][TriesPath
       => /\ incMsgs' # incMsgs => PathTried \in BeingExpanded
          /\ (FileExists(PathTried) /\ PathTried \notin BeingExpanded)
             => /\ Len(incFrames') = Len(incFrames) + 1
                /\ incMsgs' = incMsgs]_vars


(***************************************************************************)
(* Convergence of the shadow list.                                         *)
(***************************************************************************)
\* C37: once the pipeline list has stopped changing, finitely many
\* reconciliations that are not debounced make the shadow list equal to the
\* pipeline list, in identities and order, and every later reconciliation
\* leaves it equal.
C37_ShadowListSettles ==
    (<>[][pipeline' = pipeline]_vars) => <>[](m_items = pipeline)

\* the same for the runs in which no reconciliation ends the process
SettlesUnlessCrashed ==
    (<>[][pipeline' = pipeline]_vars) => <>[](crashed \/ m_items = pipeline)

\* the frames of this specification never reach the bound on the GL names
SettleRenders == \A p \in PassIds : compileGen[p] < MaxGen /\ fboGen[p] < MaxGen


(***************************************************************************)
(* Reconciliation of a list that is in sync.                               *)
(***************************************************************************)
\* C38: when the shadow list equals the pipeline list in identity and order,
\* an m_cache that is not debounced inserts, erases and moves nothing,
\* compiles and links nothing, deletes no handle and leaves all the cached
\* arrays as they were.
C38_ReconciliationIdempotent ==
    (~crashed /\ m_items = pipeline /\ ~Debounced(Engine, pipeline))
    => \A r \in {m_cache(Engine, pipeline, TRUE, <<>>)} :
          /\ r.ops.ran /\ ~r.crashed
          /\ r.ops.inserts = 0 /\ r.ops.erases = 0 /\ r.ops.moves = 0
          /\ r.ops.compiles = 0 /\ r.ops.links = 0 /\ r.ops.deletes = 0
          /\ r.live = live
          /\ r.m_items = m_items /\ r.m_shaders = m_shaders
          /\ r.m_debugShaders = m_debugShaders
          /\ r.m_shaderSources = m_shaderSources
          /\ r.m_fbos = m_fbos

\* a shadow list of two or more entries, one of them not a shader pass, is in
\* sync after a Render and the debounce interval has passed
C38_Witness ==
    /\ ~crashed
    /\ m_items = pipeline
    /\ Len(m_items) >= 2
    /\ \E k \in 1..Len(m_items) : passes[m_items[k]].Type # "ShaderPass"
    /\ \E k \in 1..Len(m_items) : m_shaders[k] # 0
    /\ ~Debounced(Engine, pipeline)
    /\ lastOp = "Tick"


(***************************************************************************)
(* The indexes m_cache uses.                                               *)
(***************************************************************************)
\* C39: during any m_cache call every index used to read the pipeline list or
\* to read, insert into or erase from m_items, m_shaders, m_debugShaders and
\* m_shaderSources is within the bounds of that container, for every shadow
\* list the engine reaches and every duplicate-free pipeline list, one shorter
\* than the shadow list included.
C39_IndexesInBounds ==
    (~crashed /\ NoDup(pipeline))
    => \A r \in {m_cache(Engine, pipeline, TRUE, <<>>)} : ~r.ops.oob /\ ~r.crashed

\* the same for the engines that cache shader passes only, where the four
\* arrays have one length
IndexesInBoundsOfShaderPasses ==
    (~crashed /\ NoDup(pipeline) /\ SameLength
       /\ \A p \in PassIds : passes[p].Type \in {"ShaderPass", "Unused"})
    => \A r \in {m_cache(Engine, pipeline, TRUE, <<>>)} : ~r.ops.oob /\ ~r.crashed


(***************************************************************************)
(* The render-target snapshot of a pass that is rendered.                  *)
(***************************************************************************)
\* the shader passes of shadow list s for which a normal Render calls
\* m_updatePassFBO (line 172)
Updatable(s) ==
    {s[k] : k \in {h \in 1..Len(s) : /\ passes[s[h]].Type = "ShaderPass"
                                     /\ passes[s[h]].Active
                                     /\ Len(passes[s[h]].Items) > 0
                                     /\ passes[s[h]].RTCount # 0}}

\* C40: whenever Render calls m_updatePassFBO for a shader pass, the snapshot
\* vector m_fbos[pass] has at least RTCount entries, however the pass entered
\* the cache, a pass added while its vertex or pixel shader path was empty
\* included.
C40_SnapshotHoldsRTCount ==
    ~crashed
    => \A r \in {m_cache(Engine, pipeline, TRUE, <<>>)} :
          ~r.crashed
          => \A pass \in Updatable(r.m_items) :
                Len(r.m_fbos[pass]) >= passes[pass].RTCount

====
